---- MODULE Spec2Model ----
(***************************************************************************)
(* Cobble: environments (cobble/env.py) and the parameterised target graph *)
(* evaluator (cobble/target/__init__.py).                                  *)
(*                                                                         *)
(* Frozen data are tagged records [t, v]:                                  *)
(*   str  : v = <<s>>        a Python str                                  *)
(*   none : v = <<>>         Python None                                   *)
(*   tup  : v = <<s1,..>>    a tuple of str                                *)
(*   set  : v = {s1,..}      a frozenset of str                            *)
(*   list : v = <<s1,..>>    a (mutable) list of str, before freezing      *)
(* An Env object is [d |-> its _dict, m |-> its _memoized_digest]; the     *)
(* memo is <<>> (None) or <<digest>>.                                      *)
(***************************************************************************)
EXTENDS Integers, Sequences, FiniteSets, TLC

VARIABLES
    env,      \* the Env object the environment operations are called on
    res,      \* record of the last environment operation and what it gave
    project,  \* the targets of the loaded project and the evaluate calls made
    failed,   \* (target, env_up) -> the exception of the first evaluate that failed
    memos,    \* Target._evaluate_memos of every target: (target, env_up) -> slot
    visits,   \* how often Target._evaluate ran for each (target, env_up)
    first,    \* the first result evaluate returned for each (target, env_up)
    last,     \* record of the last top-level evaluate call
    memosB,   \* the memos of a second run that iterates deps in another order
    lastB,    \* the second run's last top-level evaluate call
    _keys     \* KeyRegistry._keys of the registry that define is called on

vars == <<env, res, project, memos, visits, first, failed, last, memosB, lastB, _keys>>

(***************************************************************************)
(* Bounds                                                                  *)
(***************************************************************************)
\* longest tuple an environment value may grow to in the environment machine
MaxLen == 2
\* stack depth at which the interpreter stops a recursion (RecursionError)
MaxDepth == 6

(***************************************************************************)
(* Frozen data                                                             *)
(***************************************************************************)
\* the value of x, computed once, handed to F
Bind(x, F(_)) == CHOOSE v \in {F(y) : y \in {x}} : TRUE

StrV(s) == [t |-> "str", v |-> <<s>>]
NoneV == [t |-> "none", v |-> <<>>]
TupV(q) == [t |-> "tup", v |-> q]
BoolV(b) == [t |-> "bool", v |-> <<IF b THEN "True" ELSE "False">>]
\* Python's order on the strings the model uses (code point order).
StrOrder ==
    <<"$s", "$z", "(..)", "A", "B", "C", "D", "G", "H", "L", "None", "R1", "R2",
      "T", "X", "Y", "a", "a'", "b", "c", "default", "hello", "nowhere">>

StrRank(s) == CHOOSE i \in 1..Len(StrOrder) : StrOrder[i] = s

RECURSIVE SortedStrs(_)
SortedStrs(S) ==
    IF S = {} THEN <<>>
    ELSE IF Cardinality(S) = 1 THEN <<CHOOSE x \in S : TRUE>>
    ELSE LET m == CHOOSE x \in S : \A y \in S : StrRank(x) <= StrRank(y)
         IN <<m>> \o SortedStrs(S \ {m})

Range(q) == {q[i] : i \in 1..Len(q)}

\* A frozenset is written by its elements in one fixed order, which carries
\* no information: two sets with the same elements are the same value.
SetV(S) == [t |-> "set", v |-> SortedStrs(S)]

ListV(q) == [t |-> "list", v |-> q]

freeze(x) ==
    IF x.t = "list" THEN TupV(x.v) ELSE x

is_frozen(x) == x.t \in {"str", "bool", "none", "tup", "set"}

_normalize(x) ==
    IF x.t = "set" THEN TupV(SortedStrs(Range(x.v))) ELSE x

\* A str object is written as its text; "a'" is a second object whose text
\* is "a" (a string that was computed or parsed rather than written as the
\* literal 'a').  StrText is the text of an object, and PyValue the value
\* that Python's == compares.
StrText(s) == IF s = "a'" THEN "a" ELSE IF s = "-g'" THEN "-g" ELSE s

PyValue(x) ==
    CASE x.t \in {"tup", "list"} -> [x EXCEPT !.v = [i \in 1..Len(x.v) |-> StrText(x.v[i])]]
      [] x.t = "str" -> StrV(StrText(x.v[1]))
      [] OTHER -> x

PyDict(d) == [k \in DOMAIN d |-> PyValue(d[k])]

\* str(x), as string.Template applies it to a substituted value
PyStr(x) ==
    CASE x.t = "str" -> x.v[1]
      [] x.t = "none" -> "None"
      [] OTHER -> "(..)"

(***************************************************************************)
(* Environment keys and the key registry                                   *)
(***************************************************************************)
EnvKey(name, fl, cmb, dflt) ==
    [name |-> name, from_literal |-> fl, combine |-> cmb, default |-> freeze(dflt)]

overrideable_string_key(name) == EnvKey(name, "str", "rhs", NoneV)
appending_string_seq_key(name) == EnvKey(name, "seq", "append", TupV(<<>>))
prepending_string_seq_key(name) == EnvKey(name, "seq", "prepend", TupV(<<>>))
frozenset_key(name) == EnvKey(name, "set", "union", SetV({}))
overrideable_bool_key(name, default) == EnvKey(name, "bool", "rhs", default)

\* cobble.target.KEYS, and those of cobble.target.c.KEYS that compiling and
\* linking C sources read
TargetKeys == {"__implicit__", "__order_only__"}

CKeys ==
    {"c_deps_include_system", "c_library_archive_products", "c_link_srcs",
     "c_link_flags", "cc", "cxx", "c_flags"}

\* as registry, the key "u" given a merge function that takes the new value
registryMergingU ==
    [n \in {"d", "f", "k", "p", "s", "u"} \cup TargetKeys \cup CKeys |->
        CASE n = "s" -> overrideable_string_key("s")
          [] n = "k" -> appending_string_seq_key("k")
          [] n = "p" -> prepending_string_seq_key("p")
          [] n = "f" -> frozenset_key("f")
          [] n \in {"__implicit__", "__order_only__"} -> frozenset_key(n)
          [] n = "c_deps_include_system" -> overrideable_bool_key(n, BoolV(FALSE))
          [] n = "c_library_archive_products" -> overrideable_bool_key(n, NoneV)
          [] n = "c_link_srcs" -> prepending_string_seq_key(n)
          [] n \in {"c_flags", "c_link_flags"} -> appending_string_seq_key(n)
          [] n \in {"cc", "cxx"} -> overrideable_string_key(n)
          [] n = "u" -> EnvKey("u", "freeze", "rhs", StrV("hello"))
          [] n = "d" -> EnvKey("d", "freeze", "delete", StrV("default"))]

\* The registry: one key of each helper, the key without a merge function of
\* test_env (k1), the deleting key of test_digest (k2), and the keys of the
\* targets and of the C plugin.
registry ==
    [n \in {"d", "f", "k", "p", "s", "u"} \cup TargetKeys \cup CKeys |->
        CASE n = "s" -> overrideable_string_key("s")
          [] n = "k" -> appending_string_seq_key("k")
          [] n = "p" -> prepending_string_seq_key("p")
          [] n = "f" -> frozenset_key("f")
          [] n \in {"__implicit__", "__order_only__"} -> frozenset_key(n)
          [] n = "c_deps_include_system" -> overrideable_bool_key(n, BoolV(FALSE))
          [] n = "c_library_archive_products" -> overrideable_bool_key(n, NoneV)
          [] n = "c_link_srcs" -> prepending_string_seq_key(n)
          [] n \in {"c_flags", "c_link_flags"} -> appending_string_seq_key(n)
          [] n \in {"cc", "cxx"} -> overrideable_string_key(n)
          [] n = "u" -> EnvKey("u", "freeze", "absent", StrV("hello"))
          [] n = "d" -> EnvKey("d", "freeze", "delete", StrV("default"))]

\* Python's order on key names, the name "z" that no key has included.
KeyOrder ==
    <<"__implicit__", "__order_only__", "c_deps_include_system", "c_flags",
      "c_library_archive_products", "c_link_flags", "c_link_srcs", "cc", "cxx",
      "d", "f", "k", "p", "s", "u", "z">>

Ok(v) == [err |-> "ok", v |-> v]
Err(kind) == [err |-> kind, v |-> NoneV]

from_literal(key, lit) ==
    CASE key.from_literal = "str" ->
            IF lit.t = "str" THEN Ok(lit) ELSE Err("bad-literal")
      [] key.from_literal = "seq" ->
            \* inputs give a sequence key lists and tuples, and sets of at most
            \* one element (whose iteration order is unique)
            IF lit.t \in {"tup", "list"} THEN Ok(TupV(lit.v))
            ELSE IF lit.t = "set" THEN Ok(TupV(SortedStrs(Range(lit.v))))
            ELSE Err("bad-literal")
      [] key.from_literal = "bool" ->
            IF lit.t = "bool" THEN Ok(lit) ELSE Err("bad-literal")
      [] key.from_literal = "set" ->
            IF lit.t \in {"tup", "list"} THEN Ok(SetV(Range(lit.v)))
            ELSE IF lit.t = "set" THEN Ok(lit)
            ELSE Err("bad-literal")
      [] OTHER -> Ok(freeze(lit))

\* as combine, the two values handed to the merge function in the other order
combineSwapped(key, lhs, rhs) ==
    CASE key.combine = "absent" -> Err("merge-conflict")
      [] key.combine = "rhs" -> Ok(lhs)
      [] key.combine = "append" -> Ok(TupV(rhs.v \o lhs.v))
      [] key.combine = "prepend" -> Ok(TupV(lhs.v \o rhs.v))
      [] key.combine = "union" -> Ok(SetV(Range(rhs.v) \cup Range(lhs.v)))
      [] OTHER -> Ok(IF lhs = NoneV THEN NoneV ELSE lhs)

combine(key, lhs, rhs) ==
    CASE key.combine = "absent" -> Err("merge-conflict")
      [] key.combine = "rhs" -> Ok(rhs)
      [] key.combine = "append" -> Ok(TupV(lhs.v \o rhs.v))
      [] key.combine = "prepend" -> Ok(TupV(rhs.v \o lhs.v))
      [] key.combine = "union" -> Ok(SetV(Range(lhs.v) \cup Range(rhs.v)))
      [] OTHER -> Ok(IF rhs = NoneV THEN NoneV ELSE rhs)

(***************************************************************************)
(* Env                                                                     *)
(***************************************************************************)
NoDict == <<>>

\* Env.__init__: a fresh dict is taken as it is, any other is copied and frozen
EnvNew(prototype_dict, fresh) ==
    [d |-> IF fresh THEN prototype_dict
           ELSE [k \in DOMAIN prototype_dict |-> freeze(prototype_dict[k])],
     m |-> <<>>]

Without1(d, k) == [x \in (DOMAIN d) \ {k} |-> d[x]]
With1(d, k, v) == [x \in (DOMAIN d) \cup {k} |-> IF x = k THEN v ELSE d[x]]

\* the readout of the key called name: of the keys of the registry,
\* c_deps_include_system alone has a readout function
readout(name, value) ==
    IF name = "c_deps_include_system"
    THEN StrV(IF value = BoolV(TRUE) THEN "-MMD" ELSE "-MD")
    ELSE value

\* Env.__getitem__
getitem(e, key) ==
    IF key \in DOMAIN registry
    THEN Ok(readout(key, IF key \in DOMAIN e.d THEN e.d[key] ELSE registry[key].default))
    ELSE Err("unknown-key")

\* string.Template(literal).substitute(self) on the strings of the model:
\* "$s" and "$z" each reference one key, every other string has no "$"
Substitute(e, s) ==
    IF s \in {"$s", "$z"}
    THEN LET g == getitem(e, IF s = "$s" THEN "s" ELSE "z")
         IN IF g.err = "ok" THEN Ok(PyStr(g.v)) ELSE [err |-> g.err, v |-> s]
    ELSE Ok(s)

rewrite(e, literal) ==
    CASE literal.t = "str" ->
            LET r == Substitute(e, literal.v[1])
            IN IF r.err = "ok" THEN Ok(StrV(r.v)) ELSE Err(r.err)
      [] literal.t = "tup" ->
            IF \E i \in 1..Len(literal.v) : Substitute(e, literal.v[i]).err # "ok"
            THEN Err("unknown-key")
            ELSE Ok(TupV([i \in 1..Len(literal.v) |-> Substitute(e, literal.v[i]).v]))
      [] literal.t = "set" ->
            IF \E x \in Range(literal.v) : Substitute(e, x).err # "ok"
            THEN Err("unknown-key")
            ELSE Ok(SetV({Substitute(e, x).v : x \in Range(literal.v)}))
      [] OTHER -> Ok(literal)

\* sorted((k, _normalize(v)) for k, v in self._dict.items()): the keys are
\* distinct, so the pairs are ordered by key name alone
RECURSIVE SortedContents(_, _)
SortedContents(d, i) ==
    IF i > Len(KeyOrder) THEN <<>>
    ELSE (IF KeyOrder[i] \in DOMAIN d
          THEN <<[k |-> KeyOrder[i], v |-> _normalize(d[KeyOrder[i]])]>>
          ELSE <<>>) \o SortedContents(d, i + 1)

\* pickle.dumps(contents, protocol = 3) walks the list: a value is written
\* with the opcode of its type, and its strings follow
PickleValue(x) ==
    CASE x.t = "str" -> <<[op |-> "STR", s |-> x.v[1]]>>
      [] x.t = "none" -> <<[op |-> "NONE", s |-> ""]>>
      [] x.t = "bool" -> <<[op |-> "BOOL", s |-> x.v[1]]>>
      [] OTHER -> <<[op |-> "MARK", s |-> ""]>>
                    \o [i \in 1..Len(x.v) |-> [op |-> "STR", s |-> x.v[i]]]
                    \o <<[op |-> "TUPLE", s |-> ""]>>

RECURSIVE PickleWalk(_, _)
PickleWalk(contents, i) ==
    IF i > Len(contents) THEN <<>>
    ELSE <<[op |-> "KEY", s |-> contents[i].k]>> \o PickleValue(contents[i].v)
            \o PickleWalk(contents, i + 1)

\* The pickler's memo: a str object is written in full (BINUNICODE) the first
\* time the walk meets it and as a reference to its memo entry (BINGET) every
\* time after; the memo is keyed by the object, not by its text.  seen lists
\* the objects in the order they entered the memo.
RECURSIVE PickleMemo(_, _, _, _)
PickleMemo(walk, i, seen, out) ==
    IF i > Len(walk) THEN out
    ELSE IF walk[i].op # "STR"
         THEN PickleMemo(walk, i + 1, seen,
                 Append(out, [op |-> walk[i].op, s |-> walk[i].s, n |-> 0]))
         ELSE IF \E j \in 1..Len(seen) : seen[j] = walk[i].s
              THEN PickleMemo(walk, i + 1, seen,
                      Append(out, [op |-> "BINGET", s |-> "",
                                   n |-> CHOOSE j \in 1..Len(seen) : seen[j] = walk[i].s]))
              ELSE PickleMemo(walk, i + 1, Append(seen, walk[i].s),
                      Append(out, [op |-> "BINUNICODE", s |-> StrText(walk[i].s), n |-> 0]))

Pickle(contents) == PickleMemo(PickleWalk(contents, 1), 1, <<>>, <<>>)

\* hashlib.sha1(binary).hexdigest(), taken to be injective
Sha1(binary) == [sha1 |-> binary]

ComputeDigest(d) == Sha1(Pickle(SortedContents(d, 1)))

\* Env.digest: the value read, and the object after the read
digest(e) == IF e.m = <<>> THEN ComputeDigest(e.d) ELSE e.m[1]

Memoized(e) == [e EXCEPT !.m = <<digest(e)>>]

\* Env.__eq__ (registry is the same object throughout)
EnvEq(a, b) == digest(a) = digest(b) /\ PyDict(a.d) = PyDict(b.d)

(***************************************************************************)
(* Deltas: [t |-> "none"], [t |-> "map", items |-> <<[k, v], ..>>] (a dict *)
(* in insertion order), [t |-> "seq", ds |-> <<delta, ..>>], [t |-> "fn",  *)
(* to |-> dict] (a function of one argument that returns the environment   *)
(* with that dict) and [t |-> "bad"] (anything else).                      *)
(***************************************************************************)
NoDelta == [t |-> "none"]
MapDelta(items) == [t |-> "map", items |-> items]
SeqDelta(ds) == [t |-> "seq", ds |-> ds]
FnDelta(d) == [t |-> "fn", to |-> d]
Item(k, v) == [k |-> k, v |-> v]

\* new_dict = dict(self._dict)
CopyDict(st) == [st EXCEPT !.new = st.self]

\* as StoreNew, with new_dict the very dict of self (no copy was taken)
StoreNewAliased(st, k, value) ==
    [st EXCEPT !.new = With1(st.new, k, value), !.self = With1(st.new, k, value)]

\* new_dict[k] = value
StoreNew(st, k, value) == [st EXCEPT !.new = With1(st.new, k, value)]

\* as DelNew, storing the null the merge returned instead of deleting
DelNewStoresNone(st, k) == [st EXCEPT !.new = With1(st.new, k, NoneV)]

\* del new_dict[k]
DelNew(st, k) == [st EXCEPT !.new = Without1(st.new, k)]

\* the literals rewritten against the dict under construction
rewrite_new_dict(e, st) == [e EXCEPT !.d = st.new]

\* v = self.rewrite(v): the environment the literals are rewritten against
rewrite_self(e, st) == e

\* as DeriveItem, with a key that has no mapping merged into its default
DeriveItemMergesDefault(e, st, k, v) ==
    IF k \notin DOMAIN registry THEN [st EXCEPT !.err = "unknown-key"]
    ELSE LET key_def == registry[k]
             rw == rewrite(rewrite_self(e, st), v)
             fl == from_literal(key_def, rw.v)
             old == IF k \in DOMAIN st.self THEN st.self[k] ELSE key_def.default
         IN IF rw.err # "ok" THEN [st EXCEPT !.err = rw.err]
            ELSE IF fl.err # "ok" THEN [st EXCEPT !.err = fl.err]
            ELSE LET new_value == combine(key_def, old, fl.v)
                 IN IF new_value.err # "ok" THEN [st EXCEPT !.err = new_value.err]
                    ELSE IF new_value.v = NoneV THEN DelNew(st, k)
                    ELSE StoreNew(st, k, new_value.v)

\* One turn of the loop over delta.items() in Env.derive. st.self is
\* self._dict, st.new is new_dict, e is self.
DeriveItem(e, st, k, v) ==
    IF k \notin DOMAIN registry THEN [st EXCEPT !.err = "unknown-key"]
    ELSE LET key_def == registry[k]
             rw == rewrite(rewrite_self(e, st), v)
             fl == from_literal(key_def, rw.v)
         IN IF rw.err # "ok" THEN [st EXCEPT !.err = rw.err]
            ELSE IF fl.err # "ok" THEN [st EXCEPT !.err = fl.err]
            ELSE IF k \in DOMAIN st.self
            THEN LET new_value == combine(key_def, st.self[k], fl.v)
                 IN IF new_value.err # "ok" THEN [st EXCEPT !.err = new_value.err]
                    ELSE IF new_value.v = NoneV THEN DelNew(st, k)
                    ELSE StoreNew(st, k, new_value.v)
            ELSE StoreNew(st, k, fl.v)

RECURSIVE DeriveItems(_, _, _, _)
DeriveItems(e, st, items, i) ==
    IF i > Len(items) \/ st.err # "ok" THEN st
    ELSE DeriveItems(e, DeriveItem(e, st, items[i].k, items[i].v), items, i + 1)

\* Env.derive: [err, v |-> the Env returned, self |-> the object derive was
\* called on, as it is when derive returns or raises]
RECURSIVE derive(_, _)
derive(e, delta) ==
    CASE delta.t = "fn" -> [err |-> "ok", v |-> EnvNew(delta.to, TRUE), self |-> e]
      [] delta.t = "map" ->
            Bind(DeriveItems(e,
                        CopyDict([self |-> e.d, new |-> NoDict, err |-> "ok"]),
                        delta.items, 1), LAMBDA st :
                [err |-> st.err,
                 v |-> IF st.err = "ok" THEN EnvNew(st.new, TRUE)
                       ELSE [e EXCEPT !.d = st.self],
                 self |-> [e EXCEPT !.d = st.self]])
      [] delta.t = "seq" ->
            IF delta.ds = <<>> THEN [err |-> "ok", v |-> e, self |-> e]
            ELSE IF Head(delta.ds).t = "none"    \* derive(None) is self itself
            THEN derive(e, SeqDelta(Tail(delta.ds)))
            ELSE LET h == derive(e, Head(delta.ds))
                 IN IF h.err # "ok" THEN h
                    ELSE LET r == derive(h.v, SeqDelta(Tail(delta.ds)))
                         IN [err |-> r.err, v |-> r.v, self |-> h.self]
      [] delta.t = "none" -> [err |-> "ok", v |-> e, self |-> e]
      [] OTHER -> [err |-> "bad-delta", v |-> e, self |-> e]

Restrict(d, S) == [x \in (DOMAIN d) \cap S |-> d[x]]

\* Env.subset
subset(e, keys) == EnvNew(Restrict(e.d, keys), TRUE)

\* as _copy_defaults, without the test that the key is missing
_copy_defaults_over(e, keys) ==
    IF \E k \in keys : k \notin DOMAIN registry
    THEN [err |-> "unknown-key", v |-> e]
    ELSE LET add == {k \in keys : registry[k].default # NoneV}
         IN [err |-> "ok",
             v |-> EnvNew([x \in (DOMAIN e.d) \cup add |->
                              IF x \in add THEN registry[x].default ELSE e.d[x]],
                          TRUE)]

\* Env._copy_defaults: registry[k] raises KeyError for a name it does not hold
_copy_defaults(e, keys) ==
    IF \E k \in keys : k \notin DOMAIN e.d /\ k \notin DOMAIN registry
    THEN [err |-> "unknown-key", v |-> e]
    ELSE LET add == {k \in keys : k \notin DOMAIN e.d /\ registry[k].default # NoneV}
         IN [err |-> "ok",
             v |-> EnvNew([x \in (DOMAIN e.d) \cup add |->
                              IF x \in DOMAIN e.d THEN e.d[x] ELSE registry[x].default],
                          TRUE)]

\* Env.require
require(e, keys) ==
    IF \E k \in keys : k \notin DOMAIN e.d /\ k \notin DOMAIN registry
    THEN "unknown-key"
    ELSE IF {k \in keys : k \notin DOMAIN e.d /\ registry[k].default = NoneV} # {}
    THEN "missing-required"
    ELSE "ok"

\* Env.subset_require
subset_require(e, keys) ==
    LET c == _copy_defaults(subset(e, keys), keys)
    IN IF c.err # "ok" THEN [err |-> c.err, v |-> e, self |-> e]
       ELSE [err |-> require(c.v, keys), v |-> c.v, self |-> e]

\* Env.without. A matcher is [t |-> "fn", yes |-> the names the predicate is
\* true of], [t |-> "coll", yes |-> the names in the collection] or
\* [t |-> "bad"].
KeepIf(matcher, k) ==
    IF matcher.t = "fn" THEN k \in matcher.yes ELSE k \notin matcher.yes

without(e, matcher) ==
    IF matcher.t \in {"fn", "coll"}
    THEN [err |-> "ok",
          v |-> EnvNew([x \in {k \in DOMAIN e.d : KeepIf(matcher, k)} |-> e.d[x]], TRUE),
          self |-> e]
    ELSE [err |-> "type-error", v |-> e, self |-> e]

NoMemos == <<>>

(***************************************************************************)
(* Targets. A project is a function from target identifiers to targets:    *)
(* [concrete, down, local, using, deps, transparent, products]. `using` is *)
(* what the target's using-and-products function returns as using-delta;   *)
(* `products` is the shape of what it returns as products: "list" for the  *)
(* one product that records the local environment it was handed, "int"     *)
(* for a value that is no collection. A                                    *)
(* (target, env) dict key is [t, e]; e is NoEnv for None, else SomeEnv of  *)
(* the environment's contents (Env.__eq__ and __hash__ go by contents).    *)
(* The deltas of a target are frozen (Target.__init__ asserts is_delta),   *)
(* and its deps are the absolute identifiers it stores.                    *)
(***************************************************************************)
NoEnv == [some |-> FALSE, d |-> NoDict]
SomeEnv(d) == [some |-> TRUE, d |-> d]
Key(t, e) == [t |-> t, e |-> e]

Target(concrete, down, local, using, deps) ==
    [concrete |-> concrete, down |-> down, local |-> local, using |-> using,
     deps |-> deps, transparent |-> TRUE, products |-> "list"]

\* what a misbehaving using-and-products function returns: no delta, and
\* no collection of products
NotADelta == [t |-> "int"]
NotACollection == [bad |-> "int"]

\* the cache slots: the RecursionDetector marker, a stored exception, a result
RecursionDetector == [s |-> "rd", v |-> <<>>]
Stored(exc) == [s |-> "exc", v |-> exc]
Result(v) == [s |-> "ok", v |-> v]

\* exceptions: what went wrong, the Python class, and for an EvaluationError
\* the (target, env) pairs add_dep collected
Exc(kind, cls) == [kind |-> kind, cls |-> cls, targets |-> <<>>]
NoExc == Exc("ok", "")
add_dep(e, key) == [e EXCEPT !.targets = Append(@, key)]

\* the class of the exception an environment operation raises
EnvExc(kind) ==
    CASE kind = "unknown-key" -> Exc(kind, "Exception")
      [] kind = "bad-delta" -> Exc(kind, "Exception")
      [] OTHER -> Exc(kind, "AssertionError")

Put(f, k, v) == [x \in (DOMAIN f) \cup {k} |-> IF x = k THEN v ELSE f[x]]
Count(f, k) == IF k \in DOMAIN f THEN f[k] ELSE 0
Max(a, b) == IF a >= b THEN a ELSE b

\* Target.derive_down
derive_down(tg, env_up) ==
    IF tg.concrete THEN [err |-> "ok", v |-> EnvNew(tg.down.to, TRUE)]
    ELSE IF ~env_up.some THEN [err |-> "attribute-error", v |-> EnvNew(NoDict, TRUE)]
    ELSE Bind(derive(EnvNew(env_up.d, TRUE), tg.down), LAMBDA r :
            [err |-> r.err, v |-> r.v])

\* Target.derive_local
derive_local(tg, e) == derive(e, tg.local)

\* Python's order on target identifiers
IdentOrder == <<"A", "B", "C", "D", "G", "H", "L", "R1", "R2", "T", "X", "Y", "nowhere">>
IdentRank(t) == CHOOSE i \in 1..Len(IdentOrder) : IdentOrder[i] = t

KeyRank(k) == CHOOSE i \in 1..Len(KeyOrder) : KeyOrder[i] = k

\* The order of two hex digests is a fixed total order on them that the
\* contents do not predict; the model takes the order of the pickled bytes.
OpRank(op) ==
    CASE op = "KEY" -> 1 [] op = "BINUNICODE" -> 2 [] op = "BINGET" -> 3
      [] op = "NONE" -> 4 [] op = "MARK" -> 5 [] OTHER -> 6

RECURSIVE Flat(_, _)
Flat(b, i) ==
    IF i > Len(b) THEN <<>>
    ELSE <<OpRank(b[i].op),
           CASE b[i].op = "KEY" -> KeyRank(b[i].s)
             [] b[i].op = "BINUNICODE" -> StrRank(b[i].s)
             [] OTHER -> b[i].n>>
            \o Flat(b, i + 1)

RECURSIVE SeqLess(_, _)
SeqLess(a, b) ==
    IF a = <<>> THEN b # <<>>
    ELSE IF b = <<>> THEN FALSE
    ELSE IF Head(a) # Head(b) THEN Head(a) < Head(b)
    ELSE SeqLess(Tail(a), Tail(b))

DigestLess(x, y) == SeqLess(Flat(x.sha1, 1), Flat(y.sha1, 1))

\* e.digest if e else None: an Env with no mappings is falsy, as None is
SortDigest(e) ==
    IF e.some /\ e.d # NoDict THEN <<ComputeDigest(e.d)>> ELSE <<>>

\* a sort by ascending rank
KeyBeforeAscending(mapping, x, y) ==
    IF mapping[x].rank # mapping[y].rank THEN mapping[x].rank < mapping[y].rank
    ELSE IdentRank(x.t) < IdentRank(y.t)

\* the sort key (-r, t.ident, digest or None, u) of _topo_sort: x comes
\* before y
KeyBefore(mapping, x, y) ==
    IF mapping[x].rank # mapping[y].rank THEN mapping[x].rank > mapping[y].rank
    ELSE IF x.t # y.t THEN IdentRank(x.t) < IdentRank(y.t)
    ELSE IF SortDigest(x.e) # <<>> /\ SortDigest(y.e) # <<>>
    THEN DigestLess(SortDigest(x.e)[1], SortDigest(y.e)[1])
    ELSE FALSE

\* comparing None with a str digest raises TypeError
SortRaises(mapping) ==
    \E x, y \in DOMAIN mapping :
        /\ mapping[x].rank = mapping[y].rank /\ x.t = y.t
        /\ SortDigest(x.e) = <<>> /\ SortDigest(y.e) # <<>>

RECURSIVE Sorted(_, _)
Sorted(mapping, S) ==
    IF S = {} THEN <<>>
    ELSE LET m == CHOOSE x \in S : \A y \in S \ {x} : ~KeyBefore(mapping, y, x)
         IN <<m>> \o Sorted(mapping, S \ {m})

\* _topo_sort: the keys of the mapping in sorted order
_topo_sort(mapping) == Sorted(mapping, DOMAIN mapping)

\* the rank seen last, whatever the rank seen before
TakeRankNew(rank, old) == rank

\* rank = max(rank, merged[(target, env)][0])
TakeRank(rank, old) == Max(rank, old)

\* a merge that keeps the entry it saw first
MergeOneKeepFirst(merged, m) ==
    [x \in (DOMAIN merged) \cup (DOMAIN m) |->
        IF x \in DOMAIN merged THEN merged[x]
        ELSE [rank |-> m[x].rank + 1, using |-> m[x].using]]

\* one dict of the chain in _topo_merge
MergeOne(merged, m) ==
    [x \in (DOMAIN merged) \cup (DOMAIN m) |->
        IF x \in DOMAIN m
        THEN [rank |-> IF x \in DOMAIN merged
                       THEN TakeRank(m[x].rank + 1, merged[x].rank)
                       ELSE m[x].rank + 1,
              using |-> m[x].using]
        ELSE merged[x]]

\* _topo_merge over the rank maps of the evaluated deps
RECURSIVE _topo_merge(_, _)
_topo_merge(evaluated_deps, i) ==
    IF i = 0 THEN NoMemos
    ELSE Bind(_topo_merge(evaluated_deps, i - 1), LAMBDA merged :
            MergeOne(merged, evaluated_deps[i].ranks))

\* dict(chain(*(m[1].items() for m in evaluated_deps)))
RECURSIVE MergeProducts(_, _)
MergeProducts(evaluated_deps, i) ==
    IF i = 0 THEN NoMemos
    ELSE Bind(MergeProducts(evaluated_deps, i - 1), LAMBDA before :
            [x \in (DOMAIN before) \cup (DOMAIN evaluated_deps[i].products) |->
                IF x \in DOMAIN evaluated_deps[i].products
                THEN evaluated_deps[i].products[x] ELSE before[x]])

\* using-deltas taken once per target, whatever the environment
dep_usings_by_target(merged, topo_merged) ==
    LET firsts == SelectSeq([i \in 1..Len(topo_merged) |-> [i |-> i, key |-> topo_merged[i]]],
                            LAMBDA x : \A j \in 1..(x.i - 1) : topo_merged[j].t # x.key.t)
    IN [i \in 1..Len(firsts) |-> merged[firsts[i].key].using]

\* dep_usings = (merged[t][1] for t in topo_merged)
dep_usings(merged, topo_merged) ==
    [i \in 1..Len(topo_merged) |-> merged[topo_merged[i]].using]

\* reduce(lambda e, dlt: e.derive(dlt), dep_usings, env_local_0)
RECURSIVE FoldUsings(_, _, _)
FoldUsings(e, usings, i) ==
    IF i > Len(usings) THEN [err |-> "ok", v |-> e]
    ELSE Bind(derive(e, usings[i]), LAMBDA r :
            IF r.err # "ok" THEN [err |-> r.err, v |-> e]
            ELSE FoldUsings(r.v, usings, i + 1))

\* deps evaluated in the local environment
dep_env_local(env_down, env_local_0) == env_local_0

\* the environment handed to every dep: evaluate(env_down)
dep_env(env_down, env_local_0) == env_down

\* the merged products emptied with the rank map
products_cleared(tg, products, key, our_products) ==
    Put(IF tg.transparent THEN products ELSE NoMemos, key, our_products)

\* products[(self, env_up)] = our_products
products_with_ours(tg, products, key, our_products) ==
    Put(products, key, our_products)

\* the deps in the order they are iterated: the identifiers are rewritten
\* and a frozenset holds each once
RECURSIVE DepList(_, _)
DepList(e, q) ==
    IF q = <<>> THEN <<>>
    ELSE LET rest == DepList(e, SubSeq(q, 1, Len(q) - 1))
             id == Substitute(e, q[Len(q)]).v
         IN IF id \in Range(rest) THEN rest ELSE Append(rest, id)

Raise(st, exc) == [memos |-> st.memos, visits |-> st.visits, err |-> exc, v |-> <<>>]
Return(st, v) == [memos |-> st.memos, visits |-> st.visits, err |-> NoExc, v |-> v]

\* the rest of Target._evaluate, once the deps are evaluated
Finish(tg, t, env_up, env_local_0, st, evaluated_deps) ==
    Bind(_topo_merge(evaluated_deps, Len(evaluated_deps)), LAMBDA merged :
    Bind(MergeProducts(evaluated_deps, Len(evaluated_deps)), LAMBDA products :
    IF SortRaises(merged) THEN Raise(st, Exc("type-error", "TypeError"))
    ELSE
    Bind(_topo_sort(merged), LAMBDA topo_merged :
    Bind(FoldUsings(env_local_0, dep_usings(merged, topo_merged), 1), LAMBDA env_local_1 :
    IF env_local_1.err # "ok" THEN Raise(st, EnvExc(env_local_1.err))
    ELSE LET our_products == IF tg.products = "list"
                             THEN <<[target |-> t, env |-> env_local_1.v.d]>>
                             ELSE NotACollection
             kept == IF tg.transparent THEN merged ELSE NoMemos
         IN Return(st, [ranks |-> Put(kept, Key(t, env_up),
                                      [rank |-> 0, using |-> tg.using]),
                        products |-> products_with_ours(tg, products, Key(t, env_up),
                                                        our_products),
                        order |-> topo_merged])))))

\* an evaluate that never finds its memo
AlwaysMiss(st, key) == TRUE

\* env_up not in self._evaluate_memos
NotInMemos(st, key) == key \notin DOMAIN st.memos

\* except EvaluationError as e: the slot takes e, e takes the breadcrumb
Except(r, key) ==
    IF r.err.cls = "EvaluationError"
    THEN [r EXCEPT !.memos = Put(@, key, Stored(add_dep(r.err, key))),
                   !.err = add_dep(r.err, key)]
    ELSE r

(***************************************************************************)
(* Target.evaluate and Target._evaluate. P is the project, ord the order   *)
(* in which each target's deps frozenset is iterated, st the memos (and    *)
(* the count of _evaluate runs), depth the depth of the recursion.         *)
(***************************************************************************)
RECURSIVE evaluate(_, _, _, _, _, _)
RECURSIVE _evaluate(_, _, _, _, _, _)
RECURSIVE EvalDeps(_, _, _, _, _, _, _, _)

evaluate(P, ord, st, t, env_up, depth) ==
    LET key == Key(t, env_up)
    IN IF depth > MaxDepth THEN Raise(st, Exc("recursion-limit", "RecursionError"))
       ELSE IF NotInMemos(st, key)
       THEN Bind(_evaluate(P, ord,
                           [memos |-> Put(st.memos, key, RecursionDetector),
                            visits |-> Put(st.visits, key, Count(st.visits, key) + 1)],
                           t, env_up, depth), LAMBDA r :
                IF r.err.kind = "ok"
                THEN Return([memos |-> Put(r.memos, key, Result(r.v)),
                             visits |-> r.visits], r.v)
                ELSE Except(r, key))
       ELSE LET result == st.memos[key]
            IN IF result.s = "exc" THEN Except(Raise(st, result.v), key)
               ELSE IF result.s = "rd"
               THEN Raise(st, Exc("cycle-detected", "AssertionError"))
               ELSE Return(st, result.v)

\* [find_target(id).evaluate(env_down) for id in deps]
EvalDeps(P, ord, st, ids, i, env_down, depth, acc) ==
    IF i > Len(ids) THEN Return(st, acc)
    ELSE IF ids[i] \notin DOMAIN P
    THEN Raise(st, Exc("unknown-target", "AssertionError"))
    ELSE Bind(evaluate(P, ord, st, ids[i], SomeEnv(env_down.d), depth + 1), LAMBDA r :
            IF r.err.kind # "ok" THEN r
            ELSE EvalDeps(P, ord, [memos |-> r.memos, visits |-> r.visits],
                          ids, i + 1, env_down, depth, Append(acc, r.v)))

_evaluate(P, ord, st, t, env_up, depth) ==
    Bind(derive_down(P[t], env_up), LAMBDA env_down :
    IF env_down.err # "ok"
    THEN Raise(st, IF env_down.err = "attribute-error"
                   THEN Exc("attribute-error", "AttributeError")
                   ELSE EnvExc(env_down.err))
    ELSE
    Bind(derive_local(P[t], env_down.v), LAMBDA env_local_0 :
    IF env_local_0.err # "ok" THEN Raise(st, EnvExc(env_local_0.err))
    ELSE IF rewrite(env_local_0.v, SetV(P[t].deps)).err # "ok"
    THEN Raise(st, Exc("unknown-key", "KeyError"))
    ELSE
    Bind(EvalDeps(P, ord, st, DepList(env_local_0.v, ord[t]), 1,
                  dep_env(env_down.v, env_local_0.v), depth, <<>>), LAMBDA evaluated_deps :
    IF evaluated_deps.err.kind # "ok" THEN evaluated_deps
    ELSE Finish(P[t], t, env_up, env_local_0.v,
                [memos |-> evaluated_deps.memos, visits |-> evaluated_deps.visits],
                evaluated_deps.v))))

(***************************************************************************)
(* The environment machine: an Env is constructed, and derive, subset,     *)
(* subset_require, without and digest are called on it; the Env an         *)
(* operation returns is the one the next operation is called on.           *)
(***************************************************************************)
Prototypes ==
    { NoDict,
      "k" :> ListV(<<"a", "b">>),
      ("s" :> StrV("a")) @@ ("k" :> TupV(<<"a">>)),
      ("d" :> StrV("a")) @@ ("f" :> SetV({"a"})),
      "z" :> StrV("a") }

Deltas ==
    { NoDelta,
      MapDelta(<<Item("s", StrV("a"))>>),
      MapDelta(<<Item("s", StrV("b"))>>),
      MapDelta(<<Item("k", ListV(<<"a">>))>>),
      MapDelta(<<Item("k", TupV(<<"b">>))>>),
      MapDelta(<<Item("k", TupV(<<"a'">>))>>),
      MapDelta(<<Item("d", StrV("b"))>>),
      MapDelta(<<Item("d", NoneV)>>),
      MapDelta(<<Item("d", SetV({"a", "b"}))>>),
      MapDelta(<<Item("d", TupV(<<"a", "b">>))>>),
      MapDelta(<<Item("u", StrV("a"))>>),
      MapDelta(<<Item("s", TupV(<<"a">>))>>),
      MapDelta(<<Item("z", StrV("a"))>>),
      MapDelta(<<Item("s", StrV("b")), Item("z", StrV("a"))>>),
      MapDelta(<<Item("z", StrV("a")), Item("s", StrV("b"))>>),
      MapDelta(<<Item("d", NoneV), Item("z", StrV("a"))>>),
      MapDelta(<<Item("d", NoneV), Item("s", StrV("a"))>>),
      SeqDelta(<<MapDelta(<<Item("s", StrV("b"))>>), MapDelta(<<Item("z", StrV("a"))>>)>>),
      SeqDelta(<<NoDelta, MapDelta(<<Item("k", TupV(<<"b">>))>>)>>),
      [t |-> "bad"] }

NameSets == SUBSET {"s", "k", "z"}

\* literals handed to rewrite: "$s" names a registered key without default,
\* "$z" a name the registry does not define
Literals ==
    { StrV("a"), StrV("$s"), StrV("$z"), NoneV,
      TupV(<<"a", "$s">>), TupV(<<"$z">>), SetV({"$s"}), ListV(<<"$s">>) }

Matchers ==
    {[t |-> tt, yes |-> S] : tt \in {"fn", "coll"}, S \in SUBSET {"s", "k"}}
        \cup {[t |-> "bad", yes |-> {}]}

\* the tuples of an environment stay within MaxLen
Small(e) == \A k \in DOMAIN e.d : e.d[k].t = "tup" => Len(e.d[k].v) <= MaxLen

Done(op, arg, r) ==
    /\ res' = [op |-> op, arg |-> arg, pre |-> env, self |-> r.self,
               err |-> r.err, out |-> r.v]
    /\ env' = IF r.err = "ok" THEN r.v ELSE r.self

Construct(proto) ==
    /\ Done("init", proto, [err |-> "ok", v |-> EnvNew(proto, FALSE), self |-> env])
    /\ UNCHANGED <<project, memos, visits, first, failed, last, memosB, lastB, _keys>>

Derive(delta) ==
    /\ Small(derive(env, delta).v)
    /\ Done("derive", delta, derive(env, delta))
    /\ UNCHANGED <<project, memos, visits, first, failed, last, memosB, lastB, _keys>>

Subset(keys) ==
    /\ Done("subset", keys, [err |-> "ok", v |-> subset(env, keys), self |-> env])
    /\ UNCHANGED <<project, memos, visits, first, failed, last, memosB, lastB, _keys>>

SubsetRequire(keys) ==
    /\ Done("subset_require", keys, subset_require(env, keys))
    /\ UNCHANGED <<project, memos, visits, first, failed, last, memosB, lastB, _keys>>

Without(matcher) ==
    /\ Done("without", matcher, without(env, matcher))
    /\ UNCHANGED <<project, memos, visits, first, failed, last, memosB, lastB, _keys>>

\* env.rewrite(literal): the environment stays, the result is a value
Rewrite(literal) ==
    /\ res' = [op |-> "rewrite", arg |-> literal, pre |-> env, self |-> env,
               err |-> rewrite(env, literal).err, out |-> rewrite(env, literal).v]
    /\ env' = env
    /\ UNCHANGED <<project, memos, visits, first, failed, last, memosB, lastB, _keys>>

\* reading env.digest computes and stores the digest
ReadDigest ==
    /\ res' = [op |-> "digest", arg |-> {}, pre |-> env, self |-> Memoized(env),
               err |-> "ok", out |-> Memoized(env)]
    /\ env' = Memoized(env)
    /\ UNCHANGED <<project, memos, visits, first, failed, last, memosB, lastB, _keys>>

\* self._keys = {}
NoKeys == <<>>

NoProject == [targets |-> NoMemos, calls |-> {}]

NothingEvaluated ==
    /\ memos = NoMemos /\ visits = NoMemos /\ first = NoMemos /\ failed = NoMemos
    /\ memosB = NoMemos
    /\ last = [op |-> "none"] /\ lastB = [op |-> "none"]

EnvInit ==
    /\ env = EnvNew(NoDict, FALSE)
    /\ res = [op |-> "init", arg |-> NoDict, pre |-> EnvNew(NoDict, FALSE),
              self |-> EnvNew(NoDict, FALSE), err |-> "ok", out |-> EnvNew(NoDict, FALSE)]
    /\ project = NoProject
    /\ NothingEvaluated
    /\ _keys = NoKeys

EnvNext ==
    \/ \E proto \in Prototypes : Construct(proto)
    \/ \E delta \in Deltas : Derive(delta)
    \/ \E keys \in NameSets : Subset(keys)
    \/ \E keys \in NameSets : SubsetRequire(keys)
    \/ \E matcher \in Matchers : Without(matcher)
    \/ \E literal \in Literals : Rewrite(literal)
    \/ ReadDigest

SpecEnv == EnvInit /\ [][EnvNext]_vars

(***************************************************************************)
(* The environment machine over deltas whose literals reference the key s, *)
(* one entry of the delta changing s as well, written in either order.     *)
(***************************************************************************)
RefDeltas ==
    { MapDelta(<<Item("s", StrV("a"))>>),
      MapDelta(<<Item("s", StrV("b")), Item("k", TupV(<<"$s">>))>>),
      MapDelta(<<Item("k", TupV(<<"$s">>)), Item("s", StrV("b"))>>),
      MapDelta(<<Item("s", StrV("b")), Item("d", StrV("$s"))>>),
      MapDelta(<<Item("d", StrV("$s")), Item("s", StrV("b"))>>),
      MapDelta(<<Item("s", StrV("b")), Item("f", SetV({"$s"}))>>),
      MapDelta(<<Item("s", StrV("b")), Item("z", StrV("a"))>>),
      MapDelta(<<Item("k", ListV(<<"$s">>))>>) }

RefNext ==
    \/ \E proto \in Prototypes : Construct(proto)
    \/ \E delta \in RefDeltas : Derive(delta)

SpecRef == EnvInit /\ [][RefNext]_vars

(***************************************************************************)
(* The registry machine: a KeyRegistry is constructed and define is called *)
(* on it with EnvKey objects and with objects that are no EnvKey.  An      *)
(* argument is [type, name, obj]: its type, its name (for a str, the       *)
(* string) and which of the objects of that type and name it is.           *)
(***************************************************************************)
KeyNames == {"bar", "baz", "foo"}

DefineArgs ==
    [type : {"EnvKey"}, name : KeyNames, obj : {1, 2}]
        \cup [type : {"str", "EnvKeySubclass"}, name : {"foo"}, obj : {1}]

\* as define, the assertion on the name left out
defineAgain(keys, key) ==
    IF key.type # "EnvKey" THEN [err |-> "not-envkey", keys |-> keys]
    ELSE [err |-> "ok",
          keys |-> [n \in (DOMAIN keys) \cup {key.name} |->
                       IF n = key.name THEN key ELSE keys[n]]]

\* KeyRegistry.define: [err, keys |-> self._keys when it returns or raises]
define(keys, key) ==
    IF key.type # "EnvKey" THEN [err |-> "not-envkey", keys |-> keys]
    ELSE IF key.name \in DOMAIN keys THEN [err |-> "defined-twice", keys |-> keys]
    ELSE [err |-> "ok",
          keys |-> [n \in (DOMAIN keys) \cup {key.name} |->
                       IF n = key.name THEN key ELSE keys[n]]]

\* KeyRegistry()
NewRegistry ==
    /\ _keys' = NoKeys
    /\ res' = [op |-> "KeyRegistry", arg |-> NoKeys, err |-> "ok"]
    /\ UNCHANGED <<env, project, memos, visits, first, failed, last, memosB, lastB>>

Define(key) ==
    /\ _keys' = define(_keys, key).keys
    /\ res' = [op |-> "define", arg |-> key, err |-> define(_keys, key).err]
    /\ UNCHANGED <<env, project, memos, visits, first, failed, last, memosB, lastB>>

RegistryNext ==
    \/ NewRegistry
    \/ \E key \in DefineArgs : Define(key)

SpecRegistry == EnvInit /\ [][RegistryNext]_vars

(***************************************************************************)
(* The merge machine: from the empty environment, deltas that each give    *)
(* one key a value are derived one after another, singly or as a sequence  *)
(* delta; the keys are those of the four helpers and the key "u" that has  *)
(* no merge function.                                                      *)
(***************************************************************************)
MaxMerge == 3
MaxKeys == 2

Give(k, v) == MapDelta(<<Item(k, v)>>)

MergeDeltas ==
    { Give("k", ListV(<<"a">>)), Give("k", TupV(<<"b">>)),
      Give("p", ListV(<<"a">>)), Give("p", TupV(<<"b">>)),
      Give("s", StrV("a")), Give("s", StrV("b")),
      Give("f", ListV(<<"a">>)), Give("f", TupV(<<"b", "a">>)),
      Give("u", StrV("a")), Give("u", StrV("b")),
      SeqDelta(<<Give("k", ListV(<<"a">>)), Give("k", TupV(<<"b">>)), Give("k", ListV(<<"c">>))>>),
      SeqDelta(<<Give("p", ListV(<<"a">>)), Give("p", TupV(<<"b">>)), Give("p", ListV(<<"c">>))>>),
      SeqDelta(<<Give("s", StrV("a")), Give("s", StrV("b")), Give("s", StrV("c"))>>),
      SeqDelta(<<Give("f", ListV(<<"a">>)), Give("f", TupV(<<"b", "a">>)), Give("f", ListV(<<"c">>))>>),
      SeqDelta(<<Give("k", ListV(<<"a">>)), Give("u", StrV("a")), Give("u", StrV("b"))>>) }

MergeKeys == {"k", "p", "s", "f", "u"}

\* the tuples of an environment stay within MaxMerge, its keys within MaxKeys
Short(e) ==
    /\ Cardinality(DOMAIN e.d) <= MaxKeys
    /\ \A k \in DOMAIN e.d : Len(e.d[k].v) <= MaxMerge

Fresh0 ==
    /\ Done("init", NoDict, [err |-> "ok", v |-> EnvNew(NoDict, FALSE), self |-> env])
    /\ UNCHANGED <<project, memos, visits, first, failed, last, memosB, lastB, _keys>>

Merge(delta) ==
    /\ Short(derive(env, delta).v)
    /\ Done("derive", delta, derive(env, delta))
    /\ UNCHANGED <<project, memos, visits, first, failed, last, memosB, lastB, _keys>>

Forget(k) ==
    /\ Done("without", [t |-> "coll", yes |-> {k}], without(env, [t |-> "coll", yes |-> {k}]))
    /\ UNCHANGED <<project, memos, visits, first, failed, last, memosB, lastB, _keys>>

MergeNext ==
    \/ Fresh0
    \/ \E delta \in MergeDeltas : Merge(delta)
    \/ \E k \in MergeKeys : Forget(k)

SpecMerge == EnvInit /\ [][MergeNext]_vars

(***************************************************************************)
(* Products of the C plugin.  A path is the str os.path.join makes; the    *)
(* project has root "root" and build directory "build", and one package    *)
(* "a".                                                                    *)
(***************************************************************************)
RECURSIVE join(_)
join(parts) ==
    IF Len(parts) = 1 THEN parts[1] ELSE parts[1] \o "/" \o join(Tail(parts))

\* the hexadecimal str of a digest: one text per digest
hexdigest(e) == ToString(digest(e))

\* Project.inpath, Project.outpath, Project.linkpath
inpath(parts) == join(<<"root">> \o parts)
outpath(e, parts) == join(<<"build", "env", hexdigest(e)>> \o parts)
linkpath(parts) == join(<<"build", "latest">> \o parts)

\* Package.inpath, Package.outpath, Package.linkpath of the package "a"
package_inpath(file) == inpath(<<"a", file>>)
package_outpath(e, file) == outpath(e, <<"a", file>>)
package_linkpath(file) == linkpath(<<"a", file>>)

\* Env.readout_all
readout_all(e) == [k \in DOMAIN e.d |-> getitem(e, k).v]

_special_product_keys == {"__implicit__", "__order_only__"}

\* Python's truth value of None, a bool, a str or a collection
Truthy(x) ==
    CASE x.t = "none" -> FALSE
      [] x.t = "bool" -> x = BoolV(TRUE)
      [] x.t = "str" -> x.v[1] # ""
      [] OTHER -> x.v # <<>>

\* Product.__init__ (implicit, order_only, implicit_outputs and dyndep are
\* not given by the C plugin)
Product(e, outputs, rule, inputs, symlink_as) ==
    [env |-> e, inputs |-> freeze(inputs), rule |-> rule,
     outputs |-> freeze(outputs), symlink_as |-> symlink_as,
     implicit |-> getitem(e, "__implicit__").v,
     order_only |-> getitem(e, "__order_only__").v,
     variables |-> readout_all(without(e, [t |-> "coll", yes |-> _special_product_keys]).v)]

\* os.path.relpath(path, os.path.dirname(link)), kept as the expression
os_path_relpath(path, link) == "relpath(" \o path \o ", dirname(" \o link \o "))"

\* d[k] = v if cond
Entry(k, cond, v) == IF cond THEN k :> v ELSE <<>>

\* Product.ninja_dicts: the dicts, each a function from its keys
ninja_dicts(prod) ==
    LET d == ("outputs" :> prod.outputs) @@ ("rule" :> StrV(prod.rule))
                @@ Entry("inputs", Truthy(prod.inputs), prod.inputs)
                @@ Entry("implicit", Truthy(prod.implicit),
                         ListV(SortedStrs(Range(prod.implicit.v))))
                @@ Entry("order_only", Truthy(prod.order_only),
                         ListV(SortedStrs(Range(prod.order_only.v))))
                @@ Entry("variables", DOMAIN prod.variables # {}, prod.variables)
    IN IF Truthy(prod.symlink_as)
       THEN <<d,
              ("outputs" :> ListV(prod.symlink_as.v))
                @@ ("rule" :> StrV("cobble_symlink_product"))
                @@ ("order_only" :> prod.outputs)
                @@ ("variables" :>
                       ("target" :> StrV(os_path_relpath(prod.outputs.v[1],
                                                         prod.symlink_as.v[1]))))>>
       ELSE <<d>>

_common_keys == {"__order_only__", "__implicit__"}
_compile_keys == _common_keys \cup {"c_deps_include_system"}
_link_keys == _common_keys \cup {"cxx", "c_link_srcs", "c_link_flags"}

\* the sources of the model all have the extension ".c"
_file_type_map(source) == [rule |-> "compile_c_obj", keys |-> {"cc", "c_flags"}]

NoProducts == <<>>

\* _compile_object: [err, v |-> the products made, one or none]
_compile_object(source, e) ==
    Bind(subset_require(e, _compile_keys \cup _file_type_map(source).keys), LAMBDA o_env :
        IF o_env.err # "ok" THEN [err |-> o_env.err, v |-> NoProducts]
        ELSE [err |-> "ok",
              v |-> <<Product(o_env.v,
                              ListV(<<package_outpath(o_env.v, source \o ".o")>>),
                              _file_type_map(source).rule,
                              ListV(<<package_inpath(source)>>),
                              NoneV)>>])

\* [_compile_object(package, s, ctx.env) for s in sources]
RECURSIVE Objects(_, _)
Objects(sources, e) ==
    IF sources = <<>> THEN [err |-> "ok", v |-> NoProducts]
    ELSE Bind(_compile_object(Head(sources), e), LAMBDA o :
            IF o.err # "ok" THEN o
            ELSE Bind(Objects(Tail(sources), e), LAMBDA r :
                    [err |-> r.err, v |-> o.v \o r.v]))

\* list(chain(*[prod.outputs for prod in objects]))
RECURSIVE Outputs(_)
Outputs(objects) ==
    IF objects = <<>> THEN <<>> ELSE Head(objects).outputs.v \o Outputs(Tail(objects))

UsingAndProducts(err, using, products) == [err |-> err, using |-> using, products |-> products]

\* as LinkProduct, the object files handed to the product as its inputs
LinkProductWithInputs(name, program_env, obj_files) ==
    Product(program_env, ListV(<<package_outpath(program_env, name)>>),
            "link_c_program", ListV(obj_files), StrV(package_linkpath(name)))

\* the Product that c_binary's mkusing constructs for the linked program
LinkProduct(name, program_env, obj_files) ==
    Product(program_env, ListV(<<package_outpath(program_env, name)>>),
            "link_c_program", NoneV, StrV(package_linkpath(name)))

\* c_binary's mkusing(ctx), for ctx.env = e
c_binary_mkusing(name, sources, e) ==
    Bind(Objects(sources, e), LAMBDA objects :
        IF objects.err # "ok" THEN UsingAndProducts(objects.err, NoDelta, NoProducts)
        ELSE Bind(subset_require(e, _link_keys), LAMBDA sub :
            IF sub.err # "ok" THEN UsingAndProducts(sub.err, NoDelta, NoProducts)
            ELSE Bind(derive(sub.v,
                             MapDelta(<<Item("c_link_srcs", ListV(Outputs(objects.v))),
                                        Item("__implicit__", ListV(Outputs(objects.v)))>>)),
                      LAMBDA program_env :
                IF program_env.err # "ok"
                THEN UsingAndProducts(program_env.err, NoDelta, NoProducts)
                ELSE UsingAndProducts("ok",
                        MapDelta(<<Item("__implicit__", ListV(<<package_linkpath(name)>>))>>),
                        objects.v \o <<LinkProduct(name, program_env.v,
                                                   Outputs(objects.v))>>))))

\* c_library's mkusing(ctx), for ctx.env = e; c_library_archive_products is
\* set in no environment of the model, so the library is its object files
c_library_mkusing(name, sources, _using, e) ==
    Bind(Objects(sources, e), LAMBDA objects :
        IF objects.err # "ok" THEN UsingAndProducts(objects.err, NoDelta, NoProducts)
        ELSE UsingAndProducts("ok",
                SeqDelta(<<_using,
                           MapDelta(<<Item("__implicit__", ListV(Outputs(objects.v))),
                                      Item("c_link_srcs", ListV(Outputs(objects.v)))>>)>>),
                objects.v))

\* Target._evaluate of a target without deps, whose down-environment is
\* env_down: the local delta is applied, there are no using-deltas to fold
c_binary(name, sources, local, env_down) ==
    Bind(derive(env_down, local), LAMBDA env_local :
        IF env_local.err # "ok" THEN UsingAndProducts(env_local.err, NoDelta, NoProducts)
        ELSE c_binary_mkusing(name, sources, env_local.v))

c_library(name, sources, local, _using, env_down) ==
    Bind(derive(env_down, local), LAMBDA env_local :
        IF env_local.err # "ok" THEN UsingAndProducts(env_local.err, NoDelta, NoProducts)
        ELSE c_library_mkusing(name, sources, _using, env_local.v))

(***************************************************************************)
(* The C machine: BUILD.conf defines named environments, then the targets  *)
(* of package "a" are evaluated: the library barlib with source bar.c, in  *)
(* the down-environment of each concrete target that depends on it, and    *)
(* for each named environment a c_binary with source main.c and no deps.   *)
(***************************************************************************)
EnvNames == {"base", "opt"}

Contents ==
    { MapDelta(<<Item("cc", StrV("gcc")), Item("cxx", StrV("g++")),
                 Item("c_flags", ListV(<<"-Wall">>))>>),
      MapDelta(<<Item("c_flags", ListV(<<"-O">>))>>),
      MapDelta(<<Item("cc", StrV("gcc")), Item("cxx", StrV("g++")),
                 Item("c_flags", ListV(<<"-g", "-g">>))>>),
      MapDelta(<<Item("cc", StrV("gcc")), Item("cxx", StrV("g++")),
                 Item("c_flags", ListV(<<"-g", "-g'">>))>>),
      MapDelta(<<Item("cxx", StrV("g++"))>>) }

\* a concrete target's extra delta
Extras == {NoDelta, MapDelta(<<Item("c_flags", ListV(<<"-O">>))>>)}

NoBase == ""

\* loader.load's environment(name, base, contents)
environment(named_envs, name, base, contents) ==
    IF name \in DOMAIN named_envs THEN [err |-> "duplicate-environment", v |-> named_envs]
    ELSE IF base # NoBase /\ base \notin DOMAIN named_envs
    THEN [err |-> "unknown-base", v |-> named_envs]
    ELSE Bind(derive(IF base # NoBase THEN named_envs[base] ELSE EnvNew(NoDict, FALSE),
                     contents), LAMBDA e :
            IF e.err # "ok" THEN [err |-> e.err, v |-> named_envs]
            ELSE [err |-> "ok", v |-> Put(named_envs, name, e.v)])

DefineEnvironment(name, base, contents) ==
    /\ memos = NoMemos
    /\ project' = [project EXCEPT
                      !.named_envs = environment(@, name, base, contents).v]
    /\ res' = [op |-> "environment", arg |-> name,
               err |-> environment(project.named_envs, name, base, contents).err]
    /\ UNCHANGED <<env, memos, visits, first, failed, last, memosB, lastB, _keys>>

\* the c_binary declared with env = name and extra: evaluate(None)
EvaluateBinary(name, extra) ==
    /\ name \in DOMAIN project.named_envs
    /\ Key(<<"t", name, extra>>, NoEnv) \notin DOMAIN memos
    /\ \E down \in {derive(project.named_envs[name], extra)} :
          \E r \in {IF down.err # "ok" THEN UsingAndProducts(down.err, NoDelta, NoProducts)
                     ELSE c_binary("t", <<"main.c">>, NoDelta, down.v)} :
            /\ memos' = Put(memos, Key(<<"t", name, extra>>, NoEnv), r)
            /\ res' = [op |-> "evaluate", arg |-> Key(<<"t", name, extra>>, NoEnv),
                       err |-> r.err]
    /\ UNCHANGED <<env, project, visits, first, failed, last, memosB, lastB, _keys>>

\* barlib.evaluate(env_down), env_down that of the concrete target declared
\* with env = name and no extra
EvaluateLibrary(name) ==
    /\ name \in DOMAIN project.named_envs
    /\ \E down \in {derive(project.named_envs[name], NoDelta)} :
          /\ down.err = "ok"
          /\ Key(<<"barlib">>, SomeEnv(down.v.d)) \notin DOMAIN memos
          /\ \E r \in {c_library("barlib", <<"bar.c">>, NoDelta, NoDelta, down.v)} :
                /\ memos' = Put(memos, Key(<<"barlib">>, SomeEnv(down.v.d)), r)
                /\ res' = [op |-> "evaluate",
                           arg |-> Key(<<"barlib">>, SomeEnv(down.v.d)), err |-> r.err]
    /\ UNCHANGED <<env, project, visits, first, failed, last, memosB, lastB, _keys>>

CInit ==
    /\ env = EnvNew(NoDict, FALSE)
    /\ res = [op |-> "none"]
    /\ project = [targets |-> NoMemos, calls |-> {}, named_envs |-> NoMemos]
    /\ NothingEvaluated
    /\ _keys = NoKeys

CNext ==
    \/ \E name \in EnvNames : \E base \in EnvNames \cup {NoBase} :
          \E contents \in Contents : DefineEnvironment(name, base, contents)
    \/ \E name \in EnvNames : \E extra \in Extras : EvaluateBinary(name, extra)
    \/ \E name \in EnvNames : EvaluateLibrary(name)

SpecC == CInit /\ [][CNext]_vars

(***************************************************************************)
(* The emitter: write_ninja_files walks the product maps that the concrete *)
(* targets' evaluations return and writes one build block per ninja dict.  *)
(* memos holds the (target, env) pairs in the order the first pass meets   *)
(* them, each with the ninja dicts of its products.                        *)
(***************************************************************************)
MaxDicts == 3
MaxPairs == 3

\* a ninja dict with outputs and rule only
NinjaDict(outputs, rule) == ("outputs" :> TupV(outputs)) @@ ("rule" :> StrV(rule))

NinjaDicts ==
    {NinjaDict(o, r) : o \in {<<"x">>, <<"x", "y">>, <<"y", "x">>},
                       r \in {"R1", "R2"}}

\* target.ident and env.digest of the pairs, each in sorted order
Idents == <<"//a:t", "//a:u">>
Digests == <<"0a", "top">>

\* what one (target, env) pair yields: one or two dicts
PairDicts ==
    {<<d>> : d \in NinjaDicts} \cup {<<d1, d2>> : d1 \in NinjaDicts, d2 \in NinjaDicts}

\* the number of dicts in the pairs
RECURSIVE DictCount(_)
DictCount(pairs) ==
    IF pairs = <<>> THEN 0 ELSE Len(Head(pairs).dicts) + DictCount(Tail(pairs))

\* the loop over the ninja dicts of one pair (output.py:69-79)
RECURSIVE CollectDicts(_, _, _)
CollectDicts(dicts, by_output, flat) ==
    IF dicts = <<>> THEN [err |-> "ok", by_output |-> by_output, flat |-> flat]
    ELSE LET ninja_dict == Head(dicts)
             output_key == Range(ninja_dict["outputs"].v)
         IN IF output_key \in DOMAIN by_output
            THEN IF by_output[output_key] = ninja_dict
                 THEN CollectDicts(Tail(dicts), by_output, flat)
                 ELSE [err |-> "conflicting-output", by_output |-> by_output,
                       flat |-> flat]
            ELSE CollectDicts(Tail(dicts), Put(by_output, output_key, ninja_dict),
                              Append(flat, ninja_dict))

\* the first product pass (output.py:48-82): [err, by_target]
RECURSIVE FirstPass(_, _, _)
FirstPass(pairs, by_output, by_target) ==
    IF pairs = <<>> THEN [err |-> "ok", by_target |-> by_target]
    ELSE Bind(CollectDicts(Head(pairs).dicts, by_output, <<>>), LAMBDA c :
            IF c.err # "ok" THEN [err |-> c.err, by_target |-> by_target]
            ELSE FirstPass(Tail(pairs), c.by_output,
                           IF c.flat # <<>>
                           THEN Put(by_target, <<Head(pairs).ti, Head(pairs).ed>>, c.flat)
                           ELSE by_target))

\* the second product pass (output.py:97-110): the dicts handed to
\* writer.build, by target identifier, then by digest
RECURSIVE SecondPass(_, _, _)
SecondPass(by_target, i, j) ==
    IF i > Len(Idents) THEN <<>>
    ELSE IF j > Len(Digests) THEN SecondPass(by_target, i + 1, 1)
    ELSE (IF <<Idents[i], Digests[j]>> \in DOMAIN by_target
          THEN by_target[<<Idents[i], Digests[j]>>] ELSE <<>>)
         \o SecondPass(by_target, i, j + 1)

\* write_ninja_files: [err, written |-> the build blocks of build.ninja]
write_ninja_files(pairs) ==
    Bind(FirstPass(pairs, NoMemos, NoMemos), LAMBDA f :
        IF f.err # "ok" THEN [err |-> f.err, written |-> <<>>]
        ELSE [err |-> "ok", written |-> SecondPass(f.by_target, 1, 1)])

\* the evaluation of a concrete target yields a pair not met before
ProductMapEntry(ti, ed, dicts) ==
    /\ Len(memos) < MaxPairs
    /\ DictCount(memos) + Len(dicts) <= MaxDicts
    /\ \A i \in DOMAIN memos : <<memos[i].ti, memos[i].ed>> # <<ti, ed>>
    /\ memos' = Append(memos, [ti |-> ti, ed |-> ed, dicts |-> dicts])
    /\ res' = [op |-> "evaluate", arg |-> <<ti, ed>>]
    /\ UNCHANGED <<env, project, visits, first, failed, last, memosB, lastB, _keys>>

\* the evaluation of a later concrete target yields a pair again: evaluate
\* is memoised, so with the same products
SharedEntry(i) ==
    /\ Len(memos) < MaxPairs
    /\ DictCount(memos) + Len(memos[i].dicts) <= MaxDicts
    /\ memos' = Append(memos, memos[i])
    /\ res' = [op |-> "evaluate", arg |-> <<memos[i].ti, memos[i].ed>>]
    /\ UNCHANGED <<env, project, visits, first, failed, last, memosB, lastB, _keys>>

WriteNinjaFiles ==
    /\ res' = [op |-> "write_ninja_files", arg |-> memos,
               err |-> write_ninja_files(memos).err,
               written |-> write_ninja_files(memos).written]
    /\ UNCHANGED <<env, project, memos, visits, first, failed, last, memosB, lastB, _keys>>

NinjaNext ==
    \/ \E i \in DOMAIN Idents : \E j \in DOMAIN Digests : \E dicts \in PairDicts :
          ProductMapEntry(Idents[i], Digests[j], dicts)
    \/ \E i \in DOMAIN memos : SharedEntry(i)
    \/ WriteNinjaFiles

SpecNinja == EnvInit /\ [][NinjaNext]_vars

(***************************************************************************)
(* Packages and target identifiers.  Here a str is the sequence of its     *)
(* characters, so that identifiers are put together and taken apart as the *)
(* code does it.  A target object is known by the package it was created   *)
(* in and its name: [package, name], package the relpath the Package       *)
(* object holds.  The paths of the model are relative and have no ".."     *)
(* component.                                                              *)
(***************************************************************************)
\* s.split(c)
RECURSIVE split(_, _)
split(s, c) ==
    IF s = <<>> THEN << <<>> >>
    ELSE Bind(split(Tail(s), c), LAMBDA r :
            IF Head(s) = c THEN << <<>> >> \o r
            ELSE << <<Head(s)>> \o Head(r) >> \o Tail(r))

\* c.join(parts)
RECURSIVE joined(_, _)
joined(parts, c) ==
    IF parts = <<>> THEN <<>>
    ELSE IF Len(parts) = 1 THEN parts[1]
    ELSE parts[1] \o <<c>> \o joined(Tail(parts), c)

startswith(s, prefix) ==
    Len(s) >= Len(prefix) /\ SubSeq(s, 1, Len(prefix)) = prefix

\* the components that os.path.normpath keeps: not the empty ones, not "."
RECURSIVE Kept(_)
Kept(parts) ==
    IF parts = <<>> THEN <<>>
    ELSE IF Head(parts) \in {<<>>, <<".">>} THEN Kept(Tail(parts))
    ELSE <<Head(parts)>> \o Kept(Tail(parts))

\* os.path.normpath
normpath(path) ==
    IF Kept(split(path, "/")) = <<>> THEN <<".">>
    ELSE joined(Kept(split(path, "/")), "/")

\* os.path.basename
basename(path) == split(path, "/")[Len(split(path, "/"))]

\* Target.ident of the target called name in the package at relpath
ident(relpath, name) ==
    IF relpath = <<".">> THEN <<"/", "/", ":">> \o name
    ELSE <<"/", "/">> \o relpath \o <<":">> \o name

TargetObject(relpath, name) == [package |-> relpath, name |-> name]
NoTarget == [package |-> <<>>, name |-> <<>>]

\* packages[pkg_path].targets[target_name], with the two assertions before
Lookup(packages, pkg_path, target_name) ==
    IF pkg_path \notin DOMAIN packages THEN [err |-> "unknown-package", v |-> NoTarget]
    ELSE IF target_name \notin DOMAIN packages[pkg_path]
    THEN [err |-> "unknown-target", v |-> NoTarget]
    ELSE [err |-> "ok", v |-> packages[pkg_path][target_name]]

\* Project.find_target
Project_find_target(packages, id) ==
    IF ~startswith(id, <<"/", "/">>) THEN [err |-> "bad-identifier", v |-> NoTarget]
    ELSE Bind(split(SubSeq(id, 3, Len(id)), ":"), LAMBDA parts :
            IF Len(parts) = 1 THEN Lookup(packages, parts[1], basename(parts[1]))
            ELSE IF Len(parts) = 2 THEN Lookup(packages, parts[1], parts[2])
            ELSE [err |-> "too-many-colons", v |-> NoTarget])

\* Package.find_target, of the package at relpath
Package_find_target(packages, relpath, id) ==
    IF startswith(id, <<":">>)
    THEN Project_find_target(packages, <<"/", "/">> \o relpath \o id)
    ELSE Project_find_target(packages, id)

(***************************************************************************)
(* The project machine: packages are created, targets are created in them  *)
(* and added to them, and identifiers are resolved from the packages.      *)
(* project.packages maps a relpath to the targets dict of its package.     *)
(***************************************************************************)
\* the relpath arguments of Package(): the project root as the loader
\* names it, the same paths written in several ways
RelpathArgs == { <<>>, <<".">>, <<"a">>, <<"a", "/">>, <<"a", "/", "b">> }

TargetNames == { <<"b">>, <<"t">> }

\* identifiers handed to find_target: those of the targets there can be,
\* relative ones, one without a target name, one with no "//"
IdentArgs ==
    {ident(normpath(rp), n) : rp \in RelpathArgs, n \in TargetNames}
        \cup {<<":">> \o n : n \in TargetNames}
        \cup { <<"/", "/", "a", "/", "b">>, <<"a", ":", "t">> }

\* Package.__init__ with Project.add_package
NewPackage(relpath) ==
    /\ IF normpath(relpath) \in DOMAIN project.packages
       THEN /\ project' = project
            /\ res' = [op |-> "Package", arg |-> relpath, err |-> "duplicate-package"]
       ELSE /\ project' = [project EXCEPT
                             !.packages = Put(@, normpath(relpath), NoMemos)]
            /\ res' = [op |-> "Package", arg |-> relpath, err |-> "ok"]
    /\ UNCHANGED <<env, memos, visits, first, failed, last, memosB, lastB, _keys>>

\* Target(package, name, ...) and package.add_target(target)
AddTarget(relpath, name) ==
    /\ relpath \in DOMAIN project.packages
    /\ IF name \in DOMAIN project.packages[relpath]
       THEN /\ project' = project
            /\ res' = [op |-> "add_target", arg |-> <<relpath, name>>,
                       err |-> "duplicate-target"]
       ELSE /\ project' = [project EXCEPT
                             !.packages[relpath] = Put(@, name, TargetObject(relpath, name))]
            /\ res' = [op |-> "add_target", arg |-> <<relpath, name>>, err |-> "ok"]
    /\ UNCHANGED <<env, memos, visits, first, failed, last, memosB, lastB, _keys>>

\* package.find_target(id)
FindTarget(relpath, id) ==
    /\ relpath \in DOMAIN project.packages
    /\ res' = [op |-> "find_target", arg |-> <<relpath, id>>,
               err |-> Package_find_target(project.packages, relpath, id).err,
               out |-> Package_find_target(project.packages, relpath, id).v]
    /\ UNCHANGED <<env, project, memos, visits, first, failed, last, memosB, lastB, _keys>>

ProjectInit ==
    /\ env = EnvNew(NoDict, FALSE)
    /\ res = [op |-> "none"]
    /\ project = [targets |-> NoMemos, calls |-> {}, packages |-> NoMemos]
    /\ NothingEvaluated
    /\ _keys = NoKeys

ProjectNext ==
    \/ \E relpath \in RelpathArgs : NewPackage(relpath)
    \/ \E relpath \in DOMAIN project.packages : \E name \in TargetNames :
          AddTarget(relpath, name)
    \/ \E relpath \in DOMAIN project.packages : \E id \in IdentArgs :
          FindTarget(relpath, id)

SpecProject == ProjectInit /\ [][ProjectNext]_vars

(***************************************************************************)
(* The evaluator machine: a project is loaded, and evaluate is called on   *)
(* its targets, again and again. Each call is made twice, on two copies of *)
(* the memos: once with the deps of every target iterated in an arbitrary  *)
(* order, once with them iterated in the order of their identifiers.       *)
(***************************************************************************)
N1 == "k" :> TupV(<<"a">>)

Using(s, k) ==
    MapDelta((IF s = "" THEN <<>> ELSE <<Item("s", StrV(s))>>)
                \o (IF k = "" THEN <<>> ELSE <<Item("k", TupV(<<k>>))>>))

\* two concrete roots over a diamond whose paths from L to D have lengths
\* 1, 2 and 3;
\* A changes the environment its deps see
Diamond ==
    [targets |->
        ("R1" :> Target(TRUE, FnDelta(N1), NoDelta, NoDelta, {"L"}))
     @@ ("R2" :> Target(TRUE, FnDelta(N1), Using("b", ""), NoDelta, {"B"}))
     @@ ("L" :> Target(FALSE, NoDelta, NoDelta, NoDelta, {"A", "B", "D"}))
     @@ ("A" :> Target(FALSE, MapDelta(<<Item("s", StrV("c"))>>), NoDelta,
                       Using("a", "a"), {"C"}))
     @@ ("B" :> Target(FALSE, NoDelta, NoDelta, Using("b", ""), {"C", "D"}))
     @@ ("C" :> Target(FALSE, NoDelta, NoDelta, Using("c", "c"), {"D"}))
     @@ ("D" :> Target(FALSE, NoDelta, NoDelta, Using("", "b"), {})),
     calls |-> {Key("R1", NoEnv), Key("R2", NoEnv), Key("A", NoEnv),
                Key("L", SomeEnv(N1)), Key("L", SomeEnv(NoDict)),
                Key("B", SomeEnv(N1)), Key("C", SomeEnv(N1))}]

\* X and Y depend on each other
Cycle(downX, downY) ==
    [targets |->
        ("X" :> Target(FALSE, downX, NoDelta, Using("a", ""), {"Y"}))
     @@ ("Y" :> Target(FALSE, downY, NoDelta, Using("b", ""), {"X"})),
     calls |-> {Key("X", SomeEnv(N1)), Key("Y", SomeEnv(N1)),
                Key("X", SomeEnv(NoDict)), Key("Y", NoEnv)}]

CycleDowns ==
    { NoDelta,
      MapDelta(<<Item("s", StrV("c"))>>),
      MapDelta(<<Item("k", TupV(<<"a">>))>>) }

\* G's local delta names a key that is not registered, H's dep does not exist
Failing ==
    [targets |->
        ("T" :> Target(FALSE, NoDelta, NoDelta, NoDelta, {"G", "B", "H"}))
     @@ ("R1" :> Target(TRUE, FnDelta(N1), NoDelta, NoDelta, {"B", "T"}))
     @@ ("G" :> Target(FALSE, NoDelta, MapDelta(<<Item("z", StrV("a"))>>),
                       Using("a", ""), {}))
     @@ ("H" :> Target(FALSE, NoDelta, NoDelta, Using("c", ""), {"nowhere"}))
     @@ ("B" :> Target(FALSE, NoDelta, NoDelta, Using("b", ""), {})),
     calls |-> {Key("T", SomeEnv(N1)), Key("R1", NoEnv), Key("G", SomeEnv(N1)),
                Key("H", SomeEnv(N1)), Key("B", SomeEnv(N1))}]

\* a concrete root with a local delta over a concrete target with deps of
\* its own; D is reached in the environment of each of them
Nested ==
    [targets |->
        ("R1" :> Target(TRUE, FnDelta("s" :> StrV("a")), Using("c", "c"), NoDelta,
                        {"R2", "D"}))
     @@ ("R2" :> Target(TRUE, FnDelta(N1), NoDelta, Using("b", ""), {"D"}))
     @@ ("D" :> Target(FALSE, NoDelta, NoDelta, Using("", "b"), {})),
     calls |-> {Key("R1", NoEnv), Key("R2", NoEnv)}]

\* the using-and-products function of B returns an int for its using-delta,
\* that of C an int for its products
Misshapen ==
    [targets |->
        ("B" :> Target(FALSE, NoDelta, NoDelta, NotADelta, {}))
     @@ ("C" :> [Target(FALSE, NoDelta, NoDelta, NoDelta, {}) EXCEPT !.products = "int"])
     @@ ("T" :> Target(FALSE, NoDelta, NoDelta, NoDelta, {"B"}))
     @@ ("L" :> Target(FALSE, NoDelta, NoDelta, NoDelta, {"C"})),
     calls |-> {Key("B", SomeEnv(N1)), Key("C", SomeEnv(N1)),
                Key("T", SomeEnv(N1)), Key("L", SomeEnv(N1))}]

Projects ==
    {Diamond, Failing, Nested, Misshapen} \cup {Cycle(dx, dy) : dx, dy \in CycleDowns}

\* the orders a frozenset can be iterated in
Perms(S) ==
    {q \in [1..Cardinality(S) -> S] : \A i, j \in 1..Cardinality(S) : q[i] = q[j] => i = j}

RECURSIVE OrdersOver(_, _)
OrdersOver(P, S) ==
    IF S = {} THEN {NoMemos}
    ELSE LET t == CHOOSE x \in S : TRUE
         IN {Put(ord, t, q) : ord \in OrdersOver(P, S \ {t}), q \in Perms(P[t].deps)}

Orders(P) == OrdersOver(P, DOMAIN P)

RECURSIVE ByIdent(_)
ByIdent(S) ==
    IF S = {} THEN <<>>
    ELSE LET m == CHOOSE x \in S : \A y \in S : IdentRank(x) <= IdentRank(y)
         IN <<m>> \o ByIdent(S \ {m})

IdentOrders(P) == [t \in DOMAIN P |-> ByIdent(P[t].deps)]

Slot(m, key) == IF key \in DOMAIN m THEN m[key].s ELSE "absent"

\* the results the call has put in the memos
Fresh(m1, m2) == {k \in DOMAIN m2 : m2[k].s = "ok" /\ Slot(m1, k) # "ok"}

Called(key, before, r, reordered) ==
    [op |-> "evaluate", key |-> key, before |-> before, err |-> r.err, v |-> r.v,
     ran |-> Count(r.visits, key) - Count(visits, key), reordered |-> reordered]

Evaluate(key, ord) ==
    \E r \in {evaluate(project.targets, ord, [memos |-> memos, visits |-> visits],
                       key.t, key.e, 1)} :
    \E rB \in {evaluate(project.targets, IdentOrders(project.targets),
                        [memos |-> memosB, visits |-> NoMemos], key.t, key.e, 1)} :
       /\ memos' = r.memos
       /\ visits' = r.visits
       /\ first' = [k \in (DOMAIN first) \cup Fresh(memos, r.memos) |->
                        IF k \in DOMAIN first THEN first[k] ELSE r.memos[k].v]
       /\ failed' = IF r.err.kind # "ok" /\ key \notin DOMAIN failed
                    THEN Put(failed, key, r.err) ELSE failed
       /\ last' = Called(key, Slot(memos, key), r,
                         ord[key.t] # IdentOrders(project.targets)[key.t])
       /\ memosB' = rB.memos
       /\ lastB' = [op |-> "evaluate", key |-> key, before |-> Slot(memosB, key),
                    err |-> rB.err, v |-> rB.v, ran |-> 0, reordered |-> FALSE]
       /\ UNCHANGED <<env, res, project, _keys>>

Init ==
    /\ env = EnvNew(NoDict, FALSE)
    /\ res = [op |-> "none"]
    /\ project \in Projects
    /\ NothingEvaluated
    /\ _keys = NoKeys

Next ==
    \E key \in project.calls : \E ord \in Orders(project.targets) : Evaluate(key, ord)

Spec == Init /\ [][Next]_vars

(***************************************************************************)
(* The same machine over projects that hold a target of a plugin that has  *)
(* cleared its _transparent attribute (Target.__init__ sets it, _evaluate  *)
(* reads it, and a Target subclass is free to assign it): T discards the   *)
(* rank map merged from its deps B and D.                                  *)
(***************************************************************************)
Opaque ==
    [targets |->
        ("R1" :> Target(TRUE, FnDelta(N1), NoDelta, NoDelta, {"T", "D"}))
     @@ ("T" :> [Target(FALSE, NoDelta, NoDelta, Using("a", ""), {"B", "D"})
                    EXCEPT !.transparent = FALSE])
     @@ ("B" :> Target(FALSE, NoDelta, NoDelta, Using("b", ""), {}))
     @@ ("D" :> Target(FALSE, NoDelta, NoDelta, Using("", "b"), {})),
     calls |-> {Key("R1", NoEnv), Key("T", SomeEnv(N1)), Key("T", SomeEnv(NoDict)),
                Key("B", SomeEnv(N1))}]

InitOpaque ==
    /\ env = EnvNew(NoDict, FALSE)
    /\ res = [op |-> "none"]
    /\ project \in {Opaque, Diamond, Nested}
    /\ NothingEvaluated
    /\ _keys = NoKeys

SpecOpaque == InitOpaque /\ [][Next]_vars

(***************************************************************************)
(* Claims about the evaluation of targets (checked under Spec)             *)
(***************************************************************************)
Evaluated == last.op = "evaluate"
Succeeded == Evaluated /\ last.err.kind = "ok"
OkKeys == {key \in DOMAIN memos : memos[key].s = "ok"}

\* the evaluated graph: (t, e) has an edge to each of t's deps in the
\* environment t hands down from e
Edge(a, b) ==
    /\ b.t \in project.targets[a.t].deps
    /\ b.e = SomeEnv(derive_down(project.targets[a.t], a.e).v.d)

MaxOf(S) == CHOOSE m \in S : \A n \in S : n <= m

RECURSIVE LongestPath(_, _, _)
LongestPath(nodes, root, x) ==
    IF x = root THEN 0
    ELSE 1 + MaxOf({LongestPath(nodes, root, y) : y \in {z \in nodes : Edge(z, x)}})

RECURSIVE Grow(_, _)
Grow(nodes, S) ==
    LET more == S \cup {y \in nodes : \E x \in S : Edge(x, y)}
    IN IF more = S THEN S ELSE Grow(nodes, more)

\* the entries (a, e_a) transitively depends on
Below(nodes, a) == Grow(nodes, {y \in nodes : Edge(a, y)})

Pos(order, x) == CHOOSE i \in 1..Len(order) : order[i] = x

SetsS(u) == u.t = "map" /\ \E i \in 1..Len(u.items) : u.items[i].k = "s"
ValueS(u) == u.items[CHOOSE i \in 1..Len(u.items) : u.items[i].k = "s"].v

\* C1: over any sequence of evaluate calls, direct or reached through deps
\* shared by several concrete roots, the body of _evaluate runs at most once
\* for a (target, env) pair; a result once cached stays, and every later
\* evaluate of the pair returns it, equal to the first, without running the
\* body again.
C1_EvaluatedOnce ==
    /\ \A key \in DOMAIN visits : visits[key] <= 1
    /\ \A key \in DOMAIN first : memos[key] = Result(first[key])
    /\ Succeeded => last.v = first[last.key]
    /\ (Evaluated /\ last.before = "ok") => (last.ran = 0 /\ last.err.kind = "ok")

\* a second concrete root reaches a dep the first has evaluated
C1_Witness ==
    /\ Succeeded /\ last.key.t = "R2" /\ last.before = "absent"
    /\ Key("R1", NoEnv) \in OkKeys
    /\ Key("B", SomeEnv(N1)) \in DOMAIN visits
    /\ visits[Key("B", SomeEnv(N1))] = 1
    /\ last.v.products[Key("B", SomeEnv(N1))] = first[Key("B", SomeEnv(N1))].products[Key("B", SomeEnv(N1))]

\* C2: where X depends on Y and Y on X, evaluate under any environment and
\* with any down deltas fails with cycle-detected, on re-entering a pair
\* whose slot is marked in progress: it neither returns nor recurses on.
C2_CycleDetected ==
    (Evaluated /\ last.key.e.some /\ "X" \in DOMAIN project.targets)
        => last.err.kind = "cycle-detected"

\* C3: after evaluate(T, E) has failed the slot of (T, E) holds that failure,
\* not the in-progress marker, and every repeated evaluate(T, E) fails with
\* the same error without running _evaluate again.
C3_FailureCached ==
    (Evaluated /\ last.err.kind # "ok")
        => /\ memos[last.key] = Stored(last.err)
           /\ last.err.kind = failed[last.key].kind
           /\ (last.before # "absent" => last.ran = 0)

\* C4: in the rank map of a successful evaluate the root has rank 0, alone,
\* and every other entry has the length of the longest dependency path from
\* the root to it in the evaluated graph.
C4_RankIsLongestPath ==
    \A root \in OkKeys :
        LET ranks == memos[root].v.ranks
        IN /\ root \in DOMAIN ranks
           /\ \A x \in DOMAIN ranks :
                 /\ ranks[x].rank = 0 <=> x = root
                 /\ ranks[x].rank = LongestPath(DOMAIN ranks, root, x)

\* an entry reached by paths of different lengths
C4_Witness ==
    /\ Succeeded
    /\ \E x, y, z \in DOMAIN last.v.ranks :
         /\ Edge(y, x) /\ Edge(z, x)
         /\ last.v.ranks[y].rank + 1 < last.v.ranks[z].rank
         /\ last.v.ranks[x].rank = last.v.ranks[z].rank + 1

C6_OrderIndependent ==
    Evaluated =>
        /\ (last.err.kind = "ok") <=> (lastB.err.kind = "ok")
        /\ last.err.kind = "ok" => last.v = lastB.v

\* a target with three deps evaluated afresh in two different orders
C6_Witness ==
    /\ Succeeded /\ last.reordered /\ last.before = "absent"
    /\ last.key.t = "L" /\ lastB.err.kind = "ok"
    /\ last.v = lastB.v

(***************************************************************************)
(* Claims about environments (checked under SpecEnv)                       *)
(***************************************************************************)
\* the contents of two environments differ as Python's == on dicts has it
Differ(d1, d2) ==
    \/ DOMAIN d1 # DOMAIN d2
    \/ \E k \in DOMAIN d1 \cap DOMAIN d2 :
          \/ d1[k].t # d2[k].t
          \/ d1[k].t = d2[k].t /\ PyValue(d1[k]) # PyValue(d2[k])

\* C11: every environment reached from Env(prototype) by derive, subset,
\* subset_require and without maps only names the registry defines, and maps
\* them to frozen data.
C11_EnvWellFormed ==
    \A k \in DOMAIN env.d : k \in DOMAIN registry /\ is_frozen(env.d[k])

\* C12: two environments with equal contents have equal digests however they
\* were built: the environment reached by construction and derive steps has
\* the digest of the one constructed directly from its mapping written out
\* as literals, and a memoised digest equals the digest recomputed from the
\* contents.
C12_EqualContentsEqualDigests ==
    /\ digest(env) = digest(EnvNew(PyDict(env.d), FALSE))
    /\ env.m # <<>> => env.m[1] = ComputeDigest(env.d)

\* C13: two environments whose contents differ (a key mapped in one only, or
\* mapped to different frozen values, a set and an ordered tuple of the same
\* elements included) have different digests: here the environment reached
\* and the one each derive would give.
C13_DifferentContentsDifferentDigests ==
    \A delta \in Deltas :
        \A r \in {derive(env, delta)} :
            (r.err = "ok" /\ Differ(r.v.d, env.d)) => digest(r.v) # digest(env)

\* the key names a literal references as $key
Refs(literal) ==
    LET strs == IF literal.t \in {"str", "tup", "set"} THEN Range(literal.v) ELSE {}
    IN (IF "$s" \in strs THEN {"s"} ELSE {}) \cup (IF "$z" \in strs THEN {"z"} ELSE {})

\* a name with no value to read: not in the registry, or registered but not
\* mapped and without a default
NoValue(e, k) ==
    \/ k \notin DOMAIN registry
    \/ k \notin DOMAIN e.d /\ registry[k].default = NoneV

\* C14: rewrite fails when a key the literal references is missing, not in
\* the registry or registered with neither a value nor a default; it never
\* substitutes text for a key that has no value.
C14_RewriteFailsOnMissingKey ==
    (res.op = "rewrite" /\ \E k \in Refs(res.arg) : NoValue(res.pre, k)) =>
        res.err # "ok"

\* rewrite does fail on a name the registry does not define
C14_UnknownKeyFails ==
    (res.op = "rewrite" /\ "z" \in Refs(res.arg)) => res.err = "unknown-key"

\* the second half of C12 alone: the memo is the digest of the contents
C12_MemoIsDigest ==
    env.m # <<>> => env.m[1] = ComputeDigest(env.d)

RemoveAt(q, i) == SubSeq(q, 1, i - 1) \o SubSeq(q, i + 1, Len(q))

\* C7: Env.without returns a new environment that drops exactly the keys the
\* predicate is true of (or the container holds) and keeps all others with
\* their values; the environment it was called on is unchanged.
C7_WithoutDropsMatching ==
    (res.op = "without" /\ res.arg.t \in {"fn", "coll"}) =>
        /\ res.err = "ok"
        /\ DOMAIN res.out.d = (DOMAIN res.pre.d) \ res.arg.yes
        /\ \A k \in DOMAIN res.out.d : res.out.d[k] = res.pre.d[k]
        /\ res.self = res.pre

\* the names of the registry that subset_require finds neither mapped nor
\* defaulted, and the names it cannot look up at all
MissingRequired(e, names) ==
    {k \in names : k \notin DOMAIN e.d /\ k \in DOMAIN registry
                      /\ registry[k].default = NoneV}
Undefined(e, names) ==
    {k \in names : k \notin DOMAIN e.d /\ k \notin DOMAIN registry}

SubsetRequireResult ==
    /\ DOMAIN res.out.d = res.arg
    /\ \A k \in res.arg :
          res.out.d[k] = IF k \in DOMAIN res.pre.d THEN res.pre.d[k]
                         ELSE registry[k].default

\* C8 as stated: subset_require fails with missing-required exactly when some
\* name has no mapping and no default, and otherwise returns the environment
\* that maps exactly the names, each to the own value or else the default; the
\* environment it was called on is unchanged.
C8_SubsetRequireAsStated ==
    res.op = "subset_require" =>
        /\ res.err = "missing-required"
              <=> (MissingRequired(res.pre, res.arg) \cup Undefined(res.pre, res.arg)) # {}
        /\ res.err # "missing-required" => (res.err = "ok" /\ SubsetRequireResult)
        /\ res.self = res.pre

\* C8 amended: a name that is neither mapped nor defined in the registry
\* makes subset_require fail with the registry's lookup error; with no such
\* name it fails with missing-required exactly when some name has no mapping
\* and its key no default, and otherwise returns the environment that maps
\* exactly the names, each to the own value or else the key's default. The
\* environment it was called on is unchanged in every case.
C8_SubsetRequire ==
    res.op = "subset_require" =>
        /\ res.err = "unknown-key" <=> Undefined(res.pre, res.arg) # {}
        /\ res.err = "missing-required"
              <=> (Undefined(res.pre, res.arg) = {} /\ MissingRequired(res.pre, res.arg) # {})
        /\ res.err \in {"ok", "unknown-key", "missing-required"}
        /\ res.err = "ok" => SubsetRequireResult
        /\ res.self = res.pre

\* subset_require returned with one name's own value and another's default
C8_Witness ==
    /\ res.op = "subset_require" /\ res.err = "ok"
    /\ \E k \in res.arg : k \in DOMAIN res.pre.d
    /\ \E k \in res.arg : k \notin DOMAIN res.pre.d
    /\ DOMAIN res.pre.d \ res.arg # {}

\* the map deltas of a delta, each with the environment it is applied to when
\* the deltas before it succeed
MapsOf(e, delta) ==
    IF delta.t = "map" THEN {[e |-> e, items |-> delta.items]}
    ELSE IF delta.t = "seq"
    THEN {[e |-> derive(e, SeqDelta(SubSeq(delta.ds, 1, j - 1))).v,
           items |-> delta.ds[j].items] :
            j \in {i \in 1..Len(delta.ds) :
                     /\ delta.ds[i].t = "map"
                     /\ derive(e, SeqDelta(SubSeq(delta.ds, 1, i - 1))).err = "ok"}}
    ELSE {}

NamesUnknownKey(e, delta) ==
    \E m \in MapsOf(e, delta) : \E i \in 1..Len(m.items) :
        m.items[i].k \notin DOMAIN registry

\* the unknown key is the first fault: all that comes before it is valid
UnknownKeyFirst(e, delta) ==
    \E m \in MapsOf(e, delta) : \E i \in 1..Len(m.items) :
        /\ m.items[i].k \notin DOMAIN registry
        /\ derive(m.e, MapDelta(SubSeq(m.items, 1, i - 1))).err = "ok"

\* C9: derive with a delta that names a key not in the registry fails, with
\* unknown-key when all before that key is valid, and leaves the environment
\* it was called on unchanged (same contents, same digest), for a map delta
\* and for a sequence delta whose earlier element is valid.
C9_UnknownKeyFails ==
    (res.op = "derive" /\ NamesUnknownKey(res.pre, res.arg)) =>
        /\ res.err # "ok"
        /\ UnknownKeyFirst(res.pre, res.arg) => res.err = "unknown-key"
        /\ res.self = res.pre
        /\ env = res.pre
        /\ digest(res.self) = digest(res.pre)

\* a delta whose first entry (or element) is valid and changes a key, and
\* whose next names the unknown key, was derived from an environment with a
\* memoised digest
C9_Witness ==
    /\ res.op = "derive" /\ res.err = "unknown-key"
    /\ res.pre.m # <<>>
    /\ \/ /\ res.arg.t = "map" /\ Len(res.arg.items) = 2
          /\ res.arg.items[2].k = "z"
          /\ derive(res.pre, MapDelta(<<res.arg.items[1]>>)).v.d # res.pre.d
       \/ /\ res.arg.t = "seq" /\ Len(res.arg.ds) = 2
          /\ res.arg.ds[2].items[1].k = "z"
          /\ derive(res.pre, res.arg.ds[1]).v.d # res.pre.d

\* the entries of a map delta whose merge into the existing mapping gives null
NullMerges(e, items) ==
    {i \in 1..Len(items) :
        /\ items[i].k \in DOMAIN registry
        /\ items[i].k \in DOMAIN e.d
        /\ rewrite(e, items[i].v).err = "ok"
        /\ LET fl == from_literal(registry[items[i].k], rewrite(e, items[i].v).v)
           IN /\ fl.err = "ok"
              /\ combine(registry[items[i].k], e.d[items[i].k], fl.v) = Ok(NoneV)}

\* C10: if a key's merge function returns null when derive merges a map-delta
\* value into an existing mapping, the derived environment has no mapping for
\* that key, and its digest equals the digest of an environment constructed
\* afresh with the same remaining contents (the mapping written out as
\* literals).
C10_NullMergeDeletes ==
    (res.op = "derive" /\ res.arg.t = "map" /\ res.err = "ok") =>
        \A i \in NullMerges(res.pre, res.arg.items) :
            LET k == res.arg.items[i].k
                rest == derive(res.pre, MapDelta(RemoveAt(res.arg.items, i))).v.d
            IN /\ k \notin DOMAIN res.out.d
               /\ digest(res.out) = digest(EnvNew(PyDict(Without1(rest, k)), FALSE))

\* the derived environment has no mapping for the key whose merge gave null
C10_KeyDeleted ==
    (res.op = "derive" /\ res.arg.t = "map" /\ res.err = "ok") =>
        \A i \in NullMerges(res.pre, res.arg.items) :
            res.arg.items[i].k \notin DOMAIN res.out.d

\* a merge returned null for a key that was mapped, next to other mappings
C10_Witness ==
    /\ res.op = "derive" /\ res.arg.t = "map" /\ res.err = "ok"
    /\ NullMerges(res.pre, res.arg.items) # {}
    /\ res.out.d # NoDict

(***************************************************************************)
(* Claims about merging (checked under SpecMerge)                          *)
(***************************************************************************)
\* the deltas of a derive, one after another
Steps(delta) == IF delta.t = "seq" THEN delta.ds ELSE <<delta>>

\* the derive gave values to the one key k, and to no other
GivesOnly(delta, k) ==
    \A i \in 1..Len(Steps(delta)) : Steps(delta)[i].items[1].k = k

Given(delta) == [i \in 1..Len(Steps(delta)) |-> Steps(delta)[i].items[1].v]

\* v1 ++ ... ++ vn
RECURSIVE Concat(_)
Concat(vs) == IF vs = <<>> THEN <<>> ELSE Head(vs).v \o Concat(Tail(vs))

Reverse(q) == [i \in 1..Len(q) |-> q[Len(q) + 1 - i]]

\* C15: starting from an environment with no mapping for a key and deriving
\* {key: v1}, ..., {key: vn} one after another, the key holds v1 ++ ... ++ vn
\* for an appending key, vn ++ ... ++ v1 for a prepending key, vn for an
\* overrideable key and the union of the vi for a set key; derived upon an
\* environment that holds x for the key, the same with x as the first value.
C15_HelpersMerge ==
    \A k \in {"k", "p", "s", "f"} :
        (res.op = "derive" /\ res.err = "ok" /\ GivesOnly(res.arg, k)) =>
            LET vs == (IF k \in DOMAIN res.pre.d THEN <<res.pre.d[k]>> ELSE <<>>)
                          \o Given(res.arg)
            IN /\ k \in DOMAIN res.out.d
               /\ k = "k" => res.out.d[k] = TupV(Concat(vs))
               /\ k = "p" => res.out.d[k] = TupV(Concat(Reverse(vs)))
               /\ k = "s" => res.out.d[k] = vs[Len(vs)]
               /\ k = "f" => /\ res.out.d[k].t = "set"
                              /\ Range(res.out.d[k].v) = Range(Concat(vs))

\* three values were given, one after another, to a key that had none, and
\* the order of merging shows in the result
C15_Witness ==
    /\ res.op = "derive" /\ res.err = "ok" /\ res.arg.t = "seq"
    /\ GivesOnly(res.arg, "p") /\ "p" \notin DOMAIN res.pre.d
    /\ Len(Given(res.arg)) = 3
    /\ res.out.d["p"] # TupV(Concat(Given(res.arg)))

\* C16: for a key without a merge function, a derive that gives the key a
\* value while the environment holds a distinct value for it fails with
\* merge-conflict, and the environment it was called on is unchanged.
C16_MergeConflict ==
    (/\ res.op = "derive" /\ res.arg.t = "map"
     /\ res.arg.items[1].k = "u" /\ "u" \in DOMAIN res.pre.d
     /\ res.pre.d["u"] # res.arg.items[1].v) =>
        /\ res.err = "merge-conflict"
        /\ res.self = res.pre /\ env = res.pre

\* the key held a value and the delta gave it another
C16_Witness ==
    /\ res.op = "derive" /\ res.arg.t = "map" /\ res.err = "merge-conflict"
    /\ res.arg.items[1].k = "u" /\ "u" \in DOMAIN res.pre.d
    /\ res.pre.d["u"] = StrV("a") /\ res.arg.items[1].v = StrV("b")
    /\ DOMAIN res.pre.d # {"u"}

(***************************************************************************)
(* Claims about the key registry (checked under SpecRegistry)              *)
(***************************************************************************)
\* C17: at every step of a registry's life, each name it holds stays and
\* keeps the key of the first successful define of that name; a define whose
\* name is present, or whose argument is no EnvKey, fails and leaves the
\* registry as it was; any other define succeeds and adds its key.  (A new
\* registry begins a new life.)
C17_FirstDefineStays ==
    [][res'.op = "define" =>
          /\ \A n \in DOMAIN _keys : n \in DOMAIN _keys' /\ _keys'[n] = _keys[n]
          /\ IF res'.arg.type # "EnvKey" \/ res'.arg.name \in DOMAIN _keys
             THEN res'.err # "ok" /\ _keys' = _keys
             ELSE /\ res'.err = "ok"
                  /\ DOMAIN _keys' = (DOMAIN _keys) \cup {res'.arg.name}
                  /\ _keys'[res'.arg.name] = res'.arg]_vars

\* a second EnvKey of a name already defined was refused, the registry
\* holding the first
C17_Witness ==
    /\ res.op = "define" /\ res.err = "defined-twice"
    /\ res.arg.name \in DOMAIN _keys /\ _keys[res.arg.name] # res.arg
    /\ Cardinality(DOMAIN _keys) > 1


(***************************************************************************)
(* Claims about the products of the C plugin.                              *)
(***************************************************************************)
\* the products of every evaluation done so far
AllProducts == UNION {Range(memos[k].products) : k \in DOMAIN memos}

\* the evaluations of a c_binary that succeeded
Binaries == {k \in DOMAIN memos : k.t[1] = "t" /\ memos[k].err = "ok"}

\* C18: two compile products for the same package and file name have
\* different output paths whenever their product environments differ, and
\* the same output path when their product environments are equal.
C18_PathsFollowEnvs ==
    \A p1 \in AllProducts : \A p2 \in AllProducts :
        (p1.rule = "compile_c_obj" /\ p2.rule = "compile_c_obj" /\ p1.inputs = p2.inputs)
            => (Differ(p1.env.d, p2.env.d) <=> p1.outputs # p2.outputs)

\* the half of C18 that does not rest on equal contents having equal
\* digests: compile products of one file whose paths are the same have equal
\* product environments
C18_SamePathSameEnv ==
    \A p1 \in AllProducts : \A p2 \in AllProducts :
        (p1.rule = "compile_c_obj" /\ p2.rule = "compile_c_obj" /\ p1.outputs = p2.outputs)
            => ~Differ(p1.env.d, p2.env.d)

\* C19 as stated: a c_binary with no deps and one source yields one compile
\* product and one link product, the latter expanding to one symlink rule
\* too; the compile product's inputs are [package-inpath(source)] and the
\* link product's inputs are the compile product's outputs.
C19_AsStated ==
    \A k \in Binaries :
        LET compile == memos[k].products[1]
            link == memos[k].products[2]
        IN /\ Len(memos[k].products) = 2
           /\ compile.rule = "compile_c_obj" /\ link.rule = "link_c_program"
           /\ Len(ninja_dicts(compile)) = 1 /\ Len(ninja_dicts(link)) = 2
           /\ compile.inputs = TupV(<<package_inpath("main.c")>>)
           /\ link.inputs = compile.outputs

\* C19, amended: a c_binary with no deps and one source yields one compile
\* product and one link product, the latter expanding to one symlink rule
\* too; the compile product's inputs are [package-inpath(source)]; the link
\* product has no inputs, and the compile product's outputs are its implicit
\* dependencies and its c_link_srcs variable.
C19_LinkDependsOnObjects ==
    \A k \in Binaries :
        LET compile == memos[k].products[1]
            link == memos[k].products[2]
        IN /\ Len(memos[k].products) = 2
           /\ compile.rule = "compile_c_obj" /\ link.rule = "link_c_program"
           /\ Len(ninja_dicts(compile)) = 1 /\ Len(ninja_dicts(link)) = 2
           /\ ninja_dicts(link)[2]["rule"] = StrV("cobble_symlink_product")
           /\ ninja_dicts(link)[2]["order_only"] = link.outputs
           /\ compile.inputs = TupV(<<package_inpath("main.c")>>)
           /\ ninja_dicts(compile)[1]["inputs"] = compile.inputs
           /\ link.inputs = NoneV
           /\ "inputs" \notin DOMAIN ninja_dicts(link)[1]
           /\ Range(link.implicit.v) = Range(compile.outputs.v)
           /\ ninja_dicts(link)[1]["implicit"] = ListV(compile.outputs.v)
           /\ link.variables["c_link_srcs"] = compile.outputs

\* a c_binary has been evaluated to its two products
C19_Witness ==
    \E k \in Binaries : Len(ninja_dicts(memos[k].products[2])) = 2


(***************************************************************************)
(* Claims about the emitter.                                               *)
(***************************************************************************)
\* the dicts of the pairs that write_ninja_files was given
RECURSIVE DictsOf(_)
DictsOf(pairs) ==
    IF pairs = <<>> THEN {} ELSE Range(Head(pairs).dicts) \cup DictsOf(Tail(pairs))

SharePath(d1, d2) == Range(d1["outputs"].v) \cap Range(d2["outputs"].v) # {}

\* C20: the emitter never writes two build blocks that claim a common
\* output path with different content: whenever two products' dicts share an
\* output path and are not identical, emission fails with
\* conflicting-output; identical dicts are written once.
C20_NoConflictingOutputs ==
    res.op = "write_ninja_files" =>
        /\ (\E d1 \in DictsOf(res.arg) : \E d2 \in DictsOf(res.arg) :
                d1 # d2 /\ SharePath(d1, d2)) => res.err = "conflicting-output"
        /\ res.err = "ok" =>
              /\ \A i \in DOMAIN res.written : \A j \in DOMAIN res.written :
                    (i # j) => ~SharePath(res.written[i], res.written[j])
              /\ \A d \in DictsOf(res.arg) :
                    Cardinality({i \in DOMAIN res.written : res.written[i] = d}) = 1

\* what the first pass does detect: two dicts that are not identical and
\* have the same set of outputs; and every dict of a successful emission is
\* written once
C20_SameOutputSetConflicts ==
    res.op = "write_ninja_files" =>
        /\ (\E d1 \in DictsOf(res.arg) : \E d2 \in DictsOf(res.arg) :
                d1 # d2 /\ Range(d1["outputs"].v) = Range(d2["outputs"].v))
              <=> res.err = "conflicting-output"
        /\ res.err = "ok" =>
              \A d \in DictsOf(res.arg) :
                  Cardinality({i \in DOMAIN res.written : res.written[i] = d}) = 1


(***************************************************************************)
(* Claims about packages and identifiers (checked under SpecProject)       *)
(***************************************************************************)
\* the targets registered in the packages of the project
Registered ==
    UNION {{project.packages[rp][n] : n \in DOMAIN project.packages[rp]} :
              rp \in DOMAIN project.packages}

\* find_target from the package at relpath returns the target t
Finds(relpath, id, t) ==
    Package_find_target(project.packages, relpath, id) = [err |-> "ok", v |-> t]

\* C21: for every target t registered in a package of the project, the
\* package at the project root included, resolving t.ident with find_target
\* from any package returns t, and resolving ":name" from within t's own
\* package returns the same target.
C21_IdentResolves ==
    \A t \in Registered :
        /\ \A from \in DOMAIN project.packages : Finds(from, ident(t.package, t.name), t)
        /\ Finds(t.package, <<":">> \o t.name, t)

\* what does hold: ":name" from within the target's own package returns the
\* target, and so does its ident from any package unless the target is in
\* the package at the project root
C21_ResolvesOutsideRoot ==
    \A t \in Registered :
        /\ Finds(t.package, <<":">> \o t.name, t)
        /\ t.package # <<".">> =>
              \A from \in DOMAIN project.packages :
                  Finds(from, ident(t.package, t.name), t)


(***************************************************************************)
(* Claims about failures, shapes and environments of the evaluation        *)
(* (checked under Spec)                                                    *)
(***************************************************************************)
\* C22: when an evaluation fails, the error the caller receives carries the
\* (target, env) pair of every evaluation on the chain from the call's root
\* to the evaluation that failed, the root's own pair among them; the error
\* of a cycle between X and Y carries a pair of X and a pair of Y.
C22_ErrorCarriesChain ==
    (Evaluated /\ last.err.kind # "ok") =>
        /\ last.key \in Range(last.err.targets)
        /\ (last.err.kind = "cycle-detected" /\ "X" \in DOMAIN project.targets) =>
              \E a, b \in Range(last.err.targets) : a.t = "X" /\ b.t = "Y"

\* C30: between calls, when no evaluate is on the call stack, no cache slot
\* holds the in-progress marker.
C30_NoMarkerLeft ==
    \A key \in DOMAIN memos : memos[key].s # "rd"

\* is_delta, on the shapes the targets of the projects return
is_delta(d) == d.t \in {"none", "fn", "map", "seq"}

\* the using-and-products function of the target returns a delta and a
\* collection
Shaped(tg) == is_delta(tg.using) /\ tg.products = "list"

\* C23: a concrete target is not transparent: the rank map it returns when
\* it is evaluated as a dependency holds its own entry only, so the merged
\* rank map of the target depending on it has no entry for the deps of the
\* concrete target, and their using-deltas are not among those folded into
\* the local environment.
C23_ConcreteNotTransparent ==
    \A root \in OkKeys :
        LET r == memos[root].v
        IN /\ (project.targets[root.t].concrete /\ root.e.some) =>
                  DOMAIN r.ranks = {root}
           /\ \A x \in (DOMAIN r.ranks) \ {root} :
                  project.targets[x.t].concrete =>
                      /\ \A y \in DOMAIN r.ranks : ~Edge(x, y)
                      /\ \A i \in 1..Len(r.order) : ~Edge(x, r.order[i])

\* C24: what the using-and-products function returns is validated during
\* evaluate: when the using value is no delta or the products are no
\* collection, the evaluation fails with a shape error and no success is
\* stored for the pair.
C24_ShapesValidated ==
    /\ \A key \in OkKeys : Shaped(project.targets[key.t])
    /\ (Evaluated /\ ~Shaped(project.targets[last.key.t])) =>
          last.err.kind = "shape-error"

\* the environment the target of the pair hands down
EnvDown(key) == derive_down(project.targets[key.t], key.e).v

\* C25: every dep of a target T evaluated in E_up is evaluated against
\* E_down = derive_down(E_up); the local delta of T and the using-deltas of
\* its deps never change the environment a dep is evaluated in. In the rank
\* map of a result every dep has its entry under E_down, and the entries of
\* rank 1 are deps under E_down.
C25_DepsSeeEnvDown ==
    \A root \in OkKeys :
        LET r == memos[root].v
            tg == project.targets[root.t]
            down == SomeEnv(EnvDown(root).d)
        IN /\ \A d \in tg.deps : Key(d, down) \in DOMAIN r.ranks
           /\ \A x \in DOMAIN r.ranks :
                  r.ranks[x].rank = 1 => (x.t \in tg.deps /\ x.e = down)

\* a target whose local delta changes its environment, with two deps, one
\* of them with a using-delta, has been evaluated
C25_Witness ==
    \E root \in OkKeys :
        LET tg == project.targets[root.t]
        IN /\ Cardinality(tg.deps) >= 2
           /\ \E d \in tg.deps : project.targets[d].using.t = "map"
           /\ derive_local(tg, EnvDown(root)).v.d # EnvDown(root).d

\* how often x is in the value of k
CountK(d, x) ==
    IF "k" \in DOMAIN d
    THEN Cardinality({i \in 1..Len(d["k"].v) : d["k"].v[i] = x})
    ELSE 0

\* the using-delta appends x to k
AppendsK(u, x) ==
    u.t = "map" /\ \E i \in 1..Len(u.items) : u.items[i] = Item("k", TupV(<<x>>))

\* the pairs that are reached over at least two paths
Shared(root, below) ==
    {n \in below : Cardinality({m \in below \cup {root} : Edge(m, n)}) >= 2}

\* C27: each (target, env) pair in the transitive dependency graph of T
\* contributes its using-delta exactly once to the final local environment
\* of T, however many paths reach it, and a target reached in two
\* environments contributes once for each: the pairs folded are the pairs
\* of the graph, each once, and the appending key holds a value once for
\* every pair whose using-delta appends it.
C27_UsingOncePerPair ==
    \A root \in OkKeys :
        LET r == memos[root].v
            tg == project.targets[root.t]
            below == Below(OkKeys, root)
        IN /\ Range(r.order) = below
           /\ \A i, j \in 1..Len(r.order) : r.order[i] = r.order[j] => i = j
           /\ Shaped(tg) =>
                \A x \in {"a", "b", "c"} :
                    CountK(r.products[root][1].env, x)
                        = CountK(derive_local(tg, EnvDown(root)).v.d, x)
                          + Cardinality({n \in below :
                                AppendsK(project.targets[n.t].using, x)})

\* a pair reached over two paths, and a target reached in two environments,
\* both with a using-delta that appends to the key
C27_Witness ==
    /\ Succeeded
    /\ LET below == Below(OkKeys, last.key)
       IN /\ \E n \in Shared(last.key, below) :
                AppendsK(project.targets[n.t].using, "b")
          /\ \E a, b \in below :
                a.t = b.t /\ a.e # b.e /\ AppendsK(project.targets[a.t].using, "b")


(***************************************************************************)
(* Claims about the product map (checked under SpecOpaque)                 *)
(***************************************************************************)
\* C29: after a successful evaluate of T the product map returned holds an
\* entry for every (target, env) pair evaluated in the transitive
\* dependency graph of T, T's own pair included; the keys of the rank map
\* are keys of the product map; and a non-transparent target, which
\* discards the rank map merged from its deps, removes no entry of the
\* product map.
C29_ProductsOfWholeGraph ==
    \A root \in OkKeys :
        LET r == memos[root].v
        IN /\ root \in DOMAIN r.products
           /\ DOMAIN r.ranks \subseteq DOMAIN r.products
           /\ Below(OkKeys, root) \subseteq DOMAIN r.products

\* the root depends on a non-transparent target: a dep of that target is in
\* the product map of the root and not in its rank map
C29_Witness ==
    /\ Succeeded
    /\ \E x \in (DOMAIN last.v.ranks) \ {last.key} :
          /\ ~project.targets[x.t].transparent
          /\ \E y \in DOMAIN last.v.products :
                Edge(x, y) /\ y \notin DOMAIN last.v.ranks


(***************************************************************************)
(* Claims about derive with a map delta (C26 checked under SpecRef, C28    *)
(* under SpecEnv)                                                          *)
(***************************************************************************)
MapDerived == res.op = "derive" /\ res.arg.t = "map"

\* the entries of the delta in every order
Reordered(items) ==
    {[i \in 1..Len(items) |-> items[q[i]]] : q \in Perms(1..Len(items))}

\* the literal names the key s in a string, a tuple or a frozenset
RefersToS(v) == v.t \in {"str", "tup", "set"} /\ "$s" \in Range(v.v)

C28_UnmappedStoredDirectly ==
    MapDerived =>
        \A i \in 1..Len(res.arg.items) :
            LET it == res.arg.items[i]
                lit == from_literal(registry[it.k], rewrite(res.pre, it.v).v)
            IN (it.k \in DOMAIN registry /\ it.k \notin DOMAIN res.pre.d) =>
                  /\ res.err # "merge-conflict"
                  /\ res.err = "ok" =>
                        /\ it.k \in DOMAIN res.out.d
                        /\ res.out.d[it.k] = lit.v
                        /\ lit.v = NoneV =>
                              /\ Differ(res.out.d, res.pre.d)
                              /\ digest(res.out) # digest(res.pre)

\* a key with a default and no merge function has been given a value, and a
\* key with a deleting merge function a null
C28_Witness ==
    /\ MapDerived /\ res.err = "ok" /\ Len(res.arg.items) = 1
    /\ res.arg.items[1].k \notin DOMAIN res.pre.d
    /\ \/ /\ res.arg.items[1].k = "u"
          /\ res.out.d["u"] # registry["u"].default
       \/ /\ res.arg.items[1] = Item("d", NoneV)
          /\ res.out.d["d"] = NoneV

====
